---- MODULE Spec2Model ----
(***************************************************************************)
(* Verification model of the PDTM browser extension (extension-project1):  *)
(* the management-state mapper, the risk model, the classifier job and the *)
(* service worker's serialized update queue.                               *)
(*                                                                         *)
(* Numbers.  A JavaScript number is modelled as a record                   *)
(*   [k |-> "fin", v |-> n]   a finite value                               *)
(*   [k |-> "nan", v |-> 0]   NaN                                          *)
(*   [k |-> "inf", v |-> s]   +Infinity (s = 1) or -Infinity (s = -1)      *)
(* Confidence values are fixed point: v counts hundredths, so 0.8 is 80    *)
(* and 1.0 is ConfOne.  Scores, bases and visit counts are whole numbers.  *)
(***************************************************************************)
EXTENDS Integers, Sequences, FiniteSets, TLC

VARIABLES
    mgmt,   \* the current call of mapToManagementState: arguments and result
    risk,   \* the current call of computeBaseScore/computeRiskScore: arguments and result
    cls,    \* the current call of classify: arguments, what evaluateSignals got, result
    ev,     \* the current call of evaluateSignals: the signals and the estimation
    sim,    \* the Dev Simulator's current visit: the URL typed and the level it stores
    inf,    \* the current call of the RP/IdP inference: arguments, progress, result
    popup,  \* the popup: its Reset in progress, and what it has done so far
    promises,     \* service worker: every promise of the update chain, in creation order
    updateQueue,  \* service worker: the promise updateQueue refers to (0: Promise.resolve())
    storage,      \* chrome.storage.local
    badge,        \* the text of the action badge
    responses,    \* the sendResponse calls made so far
    now,          \* Date.now()
    arrived,      \* the number of browser events and messages delivered so far
    failures      \* the number of storage calls that have failed so far

worker == <<promises, updateQueue, storage, badge, responses, now, arrived, failures>>
vars == <<mgmt, risk, cls, ev, sim, inf, popup, worker>>
exceptMgmt == <<risk, cls, ev, sim, inf, popup, worker>>
exceptRisk == <<mgmt, cls, ev, sim, inf, popup, worker>>
exceptCls == <<mgmt, risk, ev, sim, inf, popup, worker>>
exceptEv == <<mgmt, risk, cls, sim, inf, popup, worker>>
exceptSim == <<mgmt, risk, cls, ev, inf, popup, worker>>
exceptInf == <<mgmt, risk, cls, ev, sim, popup, worker>>
pureCalls == <<mgmt, risk, cls, ev, sim, inf, popup>>

-----------------------------------------------------------------------------
(* JavaScript values and arithmetic                                          *)

Num(n) == [k |-> "fin", v |-> n]
NaN == [k |-> "nan", v |-> 0]
PosInf == [k |-> "inf", v |-> 1]
NegInf == [k |-> "inf", v |-> -1]

IsNaN(x) == x.k = "nan"
IsFin(x) == x.k = "fin"

\* a < b as JavaScript evaluates it on numbers: false when either is NaN
JsLT(a, b) ==
    /\ ~IsNaN(a)
    /\ ~IsNaN(b)
    /\ IF IsFin(a) /\ IsFin(b) THEN a.v < b.v
       ELSE IF IsFin(a) THEN b = PosInf
       ELSE IF IsFin(b) THEN a = NegInf
       ELSE a = NegInf /\ b = PosInf

JsGT(a, b) == JsLT(b, a)

\* a >= b: false when either is NaN
JsGE(a, b) == ~IsNaN(a) /\ ~IsNaN(b) /\ ~JsLT(a, b)

\* Math.min / Math.max: NaN if any argument is NaN
MathMin(a, b) == IF IsNaN(a) \/ IsNaN(b) THEN NaN ELSE IF JsLT(b, a) THEN b ELSE a
MathMax(a, b) == IF IsNaN(a) \/ IsNaN(b) THEN NaN ELSE IF JsLT(a, b) THEN b ELSE a

Sign(n) == IF n > 0 THEN 1 ELSE IF n < 0 THEN -1 ELSE 0

\* a * b; the product of a whole number and a value in hundredths is in
\* hundredths.  0 * Infinity is NaN.
JsMul(a, b) ==
    IF IsNaN(a) \/ IsNaN(b) THEN NaN
    ELSE IF IsFin(a) /\ IsFin(b) THEN Num(a.v * b.v)
    ELSE LET s == Sign(a.v) * Sign(b.v)
         IN  IF s = 0 THEN NaN ELSE [k |-> "inf", v |-> s]

\* the values a caller can hand over where a number is expected
Undefined == [t |-> "undefined", n |-> 0, s |-> ""]
Null == [t |-> "null", n |-> 0, s |-> ""]
NumVal(n) == [t |-> "number", n |-> n, s |-> ""]
NaNVal == [t |-> "nan", n |-> 0, s |-> ""]
InfVal(sg) == [t |-> "infinity", n |-> sg, s |-> ""]
StrVal(str) == [t |-> "string", n |-> 0, s |-> str]
\* an object or function, such as a member inherited from Object.prototype
ObjVal(name) == [t |-> "object", n |-> 0, s |-> name]

\* ToNumber, as the operators * and >= apply it to an operand: undefined and a
\* non-numeric string give NaN, null gives 0
\* (an object or function converts through its string form, which is no numeral)
ToNumber(x) ==
    CASE x.t = "number" -> Num(x.n)
      [] x.t = "infinity" -> [k |-> "inf", v |-> x.n]
      [] x.t = "null" -> Num(0)
      [] OTHER -> NaN

\* truthiness of a value used as a condition
Truthy(x) ==
    CASE x.t = "number" -> x.n # 0
      [] x.t = "infinity" -> TRUE
      [] x.t = "string" -> x.s # ""
      [] x.t = "boolean" -> x.n = 1
      [] x.t = "object" -> TRUE
      [] OTHER -> FALSE

BoolVal(b) == [t |-> "boolean", n |-> IF b THEN 1 ELSE 0, s |-> ""]

\* a destructured parameter with a default: the default applies to undefined only
WithDefault(x, d) == IF x.t = "undefined" THEN d ELSE x

-----------------------------------------------------------------------------
(* Enumerations                                                              *)

VIEW == "view"
ACCOUNT == "account"
UGC == "ugc"
TRANSACTION == "transaction"
ActivityLevel == {VIEW, ACCOUNT, UGC, TRANSACTION}

NONE == "none"
NEEDS_REVIEW == "needs_review"
SUGGESTED == "suggested"
PINNED == "pinned"
MANAGEMENT_STATE == {NONE, NEEDS_REVIEW, SUGGESTED, PINNED}

\* 1.0 in hundredths
ConfOne == 100
\* confidence >= 0.8
SUGGESTED_CONFIDENCE == 80
\* score >= 20
SUGGESTED_SCORE == 20
\* confidence >= 0.6
DECENT_CONFIDENCE == 60
\* seenCount > 50
FREQUENT_COUNT == 50

-----------------------------------------------------------------------------
(* storage/management_state.js: State Mapper                                 *)

\* 1. User Override (Highest Priority)
PinnedRule(p) == Truthy(WithDefault(p.isPinned, BoolVal(FALSE)))

\* 2. SUGGESTED Rules, with the Account rule reading score > 20
SuggestedRule_StrictScore(p) ==
    /\ JsGE(ToNumber(p.confidence), Num(SUGGESTED_CONFIDENCE))
    /\ \/ p.level = TRANSACTION
       \/ /\ p.level = ACCOUNT
          /\ \/ Truthy(p.rp_domain)
             \/ JsGT(ToNumber(p.score), Num(SUGGESTED_SCORE))

\* 2. SUGGESTED Rules (High Confidence & Impact)
SuggestedRule(p) ==
    /\ JsGE(ToNumber(p.confidence), Num(SUGGESTED_CONFIDENCE))
    /\ \/ p.level = TRANSACTION
       \/ /\ p.level = ACCOUNT
          /\ \/ Truthy(p.rp_domain)
             \/ JsGE(ToNumber(p.score), Num(SUGGESTED_SCORE))

decentConfidence(p) == JsGE(ToNumber(p.confidence), Num(DECENT_CONFIDENCE))

\* isFrequent reading seenCount >= 50
isFrequent_Inclusive(p) ==
    JsGE(ToNumber(WithDefault(p.seenCount, NumVal(0))), Num(FREQUENT_COUNT))

isFrequent(p) ==
    JsGT(ToNumber(WithDefault(p.seenCount, NumVal(0))), Num(FREQUENT_COUNT))

\* the NEEDS_REVIEW rules applying only below the SUGGESTED confidence
NeedsReviewRule_BelowSuggested(p) ==
    /\ ~JsGE(ToNumber(p.confidence), Num(SUGGESTED_CONFIDENCE))
    /\ \/ p.level # VIEW /\ (decentConfidence(p) \/ isFrequent(p))
       \/ p.level = VIEW /\ isFrequent(p)

\* 3. NEEDS_REVIEW Rules (Candidate) and the special case of frequent views
NeedsReviewRule(p) ==
    \/ p.level # VIEW /\ (decentConfidence(p) \/ isFrequent(p))
    \/ p.level = VIEW /\ isFrequent(p)

\* the mapper with the pin override tested after the SUGGESTED rules
mapToManagementState_PinAfterSuggested(p) ==
    IF SuggestedRule(p) THEN SUGGESTED
    ELSE IF PinnedRule(p) THEN PINNED
    ELSE IF NeedsReviewRule(p) THEN NEEDS_REVIEW
    ELSE NONE

mapToManagementState(p) ==
    IF PinnedRule(p) THEN PINNED
    ELSE IF SuggestedRule(p) THEN SUGGESTED
    ELSE IF NeedsReviewRule(p) THEN NEEDS_REVIEW
    ELSE NONE

-----------------------------------------------------------------------------
(* storage/management_state.js: Risk Model                                   *)

BASE_TRANSACTION == 70
BASE_ACCOUNT == 30
BASE_UGC == 45
BASE_VIEW == 5
BASE_FALLBACK == 5
SCORE_MIN == 0
SCORE_MAX == 100

\* the names every object literal inherits from Object.prototype
ObjectPrototypeKeys ==
    {"constructor", "toString", "valueOf", "hasOwnProperty", "__proto__"}

\* BASE_SCORES[level]: the own entry, else the inherited member, else undefined
BASE_SCORES(level) ==
    CASE level = TRANSACTION -> NumVal(BASE_TRANSACTION)
      [] level = ACCOUNT -> NumVal(BASE_ACCOUNT)
      [] level = UGC -> NumVal(BASE_UGC)
      [] level = VIEW -> NumVal(BASE_VIEW)
      [] level \in ObjectPrototypeKeys -> ObjVal(level)
      [] OTHER -> Undefined

\* BASE_SCORES[level] || 5
computeBaseScore(level) ==
    IF Truthy(BASE_SCORES(level)) THEN BASE_SCORES(level) ELSE NumVal(BASE_FALLBACK)

\* Math.round of a value in hundredths, as a whole number: the nearest integer,
\* a half rounding up; NaN and the infinities are returned as they are
MathRound(x) == IF IsFin(x) THEN Num((x.v + 50) \div 100) ELSE x

\* a whole number in hundredths
Whole(n) == Num(n * ConfOne)

\* the score taken from the confidence alone, as a percentage
computeRiskScore_IgnoresBase(base, confidence) ==
    LET raw == JsMul(Num(SCORE_MAX), ToNumber(confidence))
    IN  MathRound(MathMax(Whole(SCORE_MIN), MathMin(Whole(SCORE_MAX), raw)))

\* Math.round(Math.max(0, Math.min(100, base * confidence)))
computeRiskScore(base, confidence) ==
    LET raw == JsMul(ToNumber(base), ToNumber(confidence))
    IN  MathRound(MathMax(Whole(SCORE_MIN), MathMin(Whole(SCORE_MAX), raw)))

-----------------------------------------------------------------------------
(* signals/signal_codes, signals/heuristics: vocabulary and evidence engine   *)

\* content-derived codes (the content probe's copy of the vocabulary)
DOM_PASSWORD == "dom_password"
DOM_EDITOR == "dom_editor"
DOM_PAYMENT == "dom_payment"
\* URL-derived codes
URL_LOGIN == "url_login"
URL_EDITOR == "url_editor"
URL_PAYMENT == "url_payment"
\* relationship and structural evidence (the keys of EVIDENCE_WEIGHTS)
REDIRECT_URI_MATCH == "redirect_uri_match"
KNOWN_IDP == "known_idp"
STRONG_PATH == "strong_path"
OAUTH_PARAMS == "oauth_params"
OPENER_LINK == "opener_link"
TEMPORAL_CHAIN == "temporal_chain"

StrongCodes ==
    {REDIRECT_URI_MATCH, KNOWN_IDP, STRONG_PATH, OAUTH_PARAMS, OPENER_LINK, TEMPORAL_CHAIN}
AuxCodes == {DOM_PASSWORD, DOM_EDITOR, DOM_PAYMENT}
UrlCodes == {URL_LOGIN, URL_EDITOR, URL_PAYMENT}

\* Object.values(SIGNAL_CODES)
SIGNAL_CODES == UrlCodes \cup AuxCodes \cup StrongCodes

\* a table in which every kind of evidence weighs as much as a redirect match
EVIDENCE_WEIGHTS_AllVeryStrong(code) == 60

\* EVIDENCE_WEIGHTS[code], in hundredths
EVIDENCE_WEIGHTS(code) ==
    CASE code = REDIRECT_URI_MATCH -> 60
      [] code = KNOWN_IDP -> 50
      [] code = STRONG_PATH -> 30
      [] code = OAUTH_PARAMS -> 20
      [] code = OPENER_LINK -> 20
      [] code = TEMPORAL_CHAIN -> 20

\* AUX_CONSTANTS, in hundredths
MAX_BONUS == 10
MIN_VAL == 5
MAX_VAL == 10
CAP_WITHOUT_STRONG_EVIDENCE == 60

\* the level category a code belongs to
TransactionCodes == {URL_PAYMENT, DOM_PAYMENT}
UgcCodes == {URL_EDITOR, DOM_EDITOR}
AccountCodes == {URL_LOGIN, DOM_PASSWORD} \cup StrongCodes

Min(a, b) == IF a < b THEN a ELSE b
Max(a, b) == IF a > b THEN a ELSE b

\* the elements of a sequence
Elems(seq) == {seq[i] : i \in 1 .. Len(seq)}

\* a sequence without its repeated elements, each kept where first encountered
RECURSIVE Dedupe(_)
Dedupe(seq) ==
    IF seq = <<>> THEN <<>>
    ELSE LET front == Dedupe(SubSeq(seq, 1, Len(seq) - 1))
             last == seq[Len(seq)]
         IN  IF last \in Elems(front) THEN front ELSE Append(front, last)

RECURSIVE SumWeights(_)
SumWeights(codes) ==
    IF codes = {} THEN 0
    ELSE LET c == CHOOSE x \in codes : TRUE
         IN  EVIDENCE_WEIGHTS(c) + SumWeights(codes \ {c})

\* the contribution of one auxiliary signal, clamped to [MIN_VAL, MAX_VAL]
AuxValue(code) ==
    LET raw == IF code = DOM_PAYMENT THEN MAX_VAL ELSE MIN_VAL
    IN  Max(MIN_VAL, Min(MAX_VAL, raw))

RECURSIVE SumAux(_)
SumAux(codes) ==
    IF codes = {} THEN 0
    ELSE LET c == CHOOSE x \in codes : TRUE
         IN  AuxValue(c) + SumAux(codes \ {c})

\* the auxiliary total, clamped to MAX_BONUS
AuxConfidence(codes) == Min(MAX_BONUS, SumAux(codes))

\* every matched signal weighing as a strong path, with neither the bonus limit
\* nor the guard
Confidence_SumOnly(present) ==
    SumWeights(present \cap StrongCodes) + 30 * Cardinality(present \cap AuxCodes)

\* strong + auxiliary confidence, clamped to [0,1] and capped without strong evidence
Confidence(present) ==
    LET strong == SumWeights(present \cap StrongCodes)
        aux == AuxConfidence(present \cap AuxCodes)
        raw == Max(0, Min(ConfOne, strong + aux))
    IN  IF strong = 0 THEN Min(raw, CAP_WITHOUT_STRONG_EVIDENCE) ELSE raw

\* the highest level a code of which is present
LevelOf(present) ==
    IF present \cap TransactionCodes # {} THEN TRANSACTION
    ELSE IF present \cap UgcCodes # {} THEN UGC
    ELSE IF present \cap AccountCodes # {} THEN ACCOUNT
    ELSE VIEW

\* evaluateSignals(signals) -> { level, confidence, reasons }
evaluateSignals(signals) ==
    LET matched == Dedupe(SelectSeq(signals, LAMBDA c : c \in SIGNAL_CODES))
        present == Elems(matched)
    IN  [level |-> LevelOf(present),
         confidence |-> Confidence(present),
         reasons |-> matched]

\* a URL string, by the parts new URL(urlStr) gives; an unparsable string has
\* valid = FALSE (new URL throws)
Url(protocol, hostname, pathname) ==
    [valid |-> TRUE, protocol |-> protocol, hostname |-> hostname, pathname |-> pathname]
BadUrl == [valid |-> FALSE, protocol |-> "", hostname |-> "", pathname |-> "not a url"]

LoginPaths == {"/login", "/author/john-doe"}
PaymentPaths == {"/checkout"}
EditorPaths == {"/edit"}

\* extractUrlSignals(url): the codes the shape of the URL gives
extractUrlSignals(url) ==
    IF url.pathname \in PaymentPaths THEN <<URL_PAYMENT>>
    ELSE IF url.pathname \in EditorPaths THEN <<URL_EDITOR>>
    ELSE IF url.pathname \in LoginPaths THEN <<URL_LOGIN>>
    ELSE <<>>

-----------------------------------------------------------------------------
(* signals/evidence_weights.js: Classifier Job                               *)

\* validatedSignals: the explicit signals with the unknown codes dropped
validatedSignals(explicitSignals) ==
    SelectSeq(explicitSignals, LAMBDA signal : signal \in SIGNAL_CODES)

\* allSignals of classify: the list handed to evaluateSignals
allSignals(url, explicitSignals) ==
    extractUrlSignals(url) \o validatedSignals(explicitSignals)

\* classify(url, explicitSignals), with the vocabulary check
classify(url, explicitSignals) == evaluateSignals(allSignals(url, explicitSignals))

\* allSignals of the classify that has no vocabulary check
allSignals_NoValidation(url, explicitSignals) ==
    extractUrlSignals(url) \o explicitSignals

\* classify(url, explicitSignals), the copy without the vocabulary check
classify_NoValidation(url, explicitSignals) ==
    evaluateSignals(allSignals_NoValidation(url, explicitSignals))

-----------------------------------------------------------------------------
(* storage/domain_state.js, storage/activity_state.js: repositories           *)

Domains == {"a.com", "b.com"}

\* an optional timestamp that is not set
NoTs == 0 - 1

NoDomainRecord ==
    [present |-> FALSE, first_seen |-> 0, last_seen |-> 0, visit_count_total |-> 0]

\* the state map after updateDomainState(domain, timestamp) has read stateMap
DomainStateAfter(stateMap, domain, timestamp) ==
    LET record == IF stateMap[domain].present THEN stateMap[domain]
                  ELSE [present |-> TRUE, first_seen |-> timestamp, last_seen |-> 0,
                        visit_count_total |-> 0]
    IN  [stateMap EXCEPT ![domain] =
            [record EXCEPT !.last_seen = timestamp,
                           !.visit_count_total = record.visit_count_total + 1]]

NoActivityRecord ==
    [present |-> FALSE, last_estimation_level |-> VIEW, last_estimation_ts |-> 0,
     counts_by_level |-> [l \in ActivityLevel |-> 0],
     last_account_touch_ts |-> NoTs, last_transaction_signal_ts |-> NoTs]

\* updateActivityState stamping the account touch whatever the level is
ActivityStateAfter_AlwaysTouchesAccount(stateMap, domain, level, timestamp) ==
    LET record == IF stateMap[domain].present THEN stateMap[domain]
                  ELSE [NoActivityRecord EXCEPT !.present = TRUE]
    IN  [stateMap EXCEPT ![domain] =
            [record EXCEPT !.counts_by_level[level] = @ + 1,
                           !.last_estimation_level = level,
                           !.last_estimation_ts = timestamp,
                           !.last_account_touch_ts = timestamp]]

\* the state map after updateActivityState(domain, estimation, timestamp) has
\* read stateMap
ActivityStateAfter(stateMap, domain, level, timestamp) ==
    LET record == IF stateMap[domain].present THEN stateMap[domain]
                  ELSE [NoActivityRecord EXCEPT !.present = TRUE]
        counted == [record EXCEPT !.counts_by_level[level] = @ + 1,
                                  !.last_estimation_level = level,
                                  !.last_estimation_ts = timestamp]
        touched == IF level = ACCOUNT
                     THEN [counted EXCEPT !.last_account_touch_ts = timestamp]
                   ELSE IF level = TRANSACTION
                     THEN [counted EXCEPT !.last_transaction_signal_ts = timestamp]
                   ELSE counted
    IN  [stateMap EXCEPT ![domain] = touched]

-----------------------------------------------------------------------------
(* service worker: navigation listener, message listener, update queue       *)

MAX_EVENTS_DEFAULT == 1000
DEDUPE_WINDOW == 2000
BADGE_MAX == 999

\* getDomain(urlStr): the hostname of an http(s) URL, else null (here "")
getDomain(url) ==
    IF ~url.valid THEN ""
    ELSE IF url.protocol \notin {"http:", "https:"} THEN ""
    ELSE url.hostname

\* the ACTIVITY_SIGNAL listener taking the domain from the message payload
SignalDomain_FromPayload(sender, payload) == getDomain(payload.url)

\* const domain = getDomain(sender.tab.url);
SignalDomain(sender, payload) == getDomain(sender.url)

\* the listener's filter { url: [{ schemes: ['http', 'https'] }] }
PassesFilter(url) == url.valid /\ url.protocol \in {"http:", "https:"}

\* if (!settings.collectionEnabled) return;
CollectionPaused(settings) == ~settings.collectionEnabled

\* a handler without the burst test
IsBurst_Never(events, domain, timestamp) == FALSE

\* Dedupe (Burst Prevention: < 2s)
IsBurst(events, domain, timestamp) ==
    /\ Len(events) > 0
    /\ events[1].domain = domain
    /\ timestamp - events[1].ts < DEDUPE_WINDOW

\* the list kept whole
Slice_KeepsAll(seq, n) == seq

\* [newEvent, ...events].slice(0, settings.maxEvents)
Slice(seq, n) == SubSeq(seq, 1, Min(Len(seq), n))
UpdatedEvents(events, domain, timestamp, maxEvents) ==
    Slice(<<[ts |-> timestamp, domain |-> domain]>> \o events, maxEvents)

\* D. Update Badge (every event of the model falls on the current day)
BadgeText(updatedEvents) ==
    LET todayCount == Len(updatedEvents)
    IN  IF todayCount > 0
          THEN (IF todayCount > BADGE_MAX THEN "1k+" ELSE ToString(todayCount))
          ELSE ""

NoPayload == [present |-> FALSE, url |-> BadUrl, signals |-> <<>>, timestamp |-> 0]
\* what a queued callback closes over; `paused` notes, for the properties only,
\* whether collection was paused when the event arrived
NoReq ==
    [frameId |-> 0, url |-> BadUrl, force |-> FALSE, domain |-> "",
     payload |-> NoPayload, paused |-> FALSE]
NoSnapshot == <<>>
NoWrite == <<>>

\* the promise p.then(callback) or p.catch(callback) creates, not yet settled
NewPromise(kind, op, pred, id, req) ==
    [kind |-> kind, op |-> op, pred |-> pred, id |-> id, req |-> req,
     st |-> "pending", ran |-> FALSE, pc |-> "", val |-> "",
     ts |-> 0, level |-> VIEW, updatedEvents |-> <<>>, w |-> NoWrite,
     pre |-> NoSnapshot]

\* a promise settles: what its callback held is released
Settle(node, st, val) ==
    [node EXCEPT !.st = st, !.val = val, !.pc = "", !.req = NoReq,
                 !.ts = 0, !.level = VIEW, !.updatedEvents = <<>>, !.w = NoWrite,
                 !.pre = NoSnapshot]

\* a handler that ends without calling sendResponse
sendResponse_NotCalled(sent, id, success) == sent

\* sendResponse({ success, ... }) for the request id
sendResponse(sent, id, success) == Append(sent, [id |-> id, success |-> success])

\* updateQueue = updateQueue.then(...)...catch(...): without the assignment the
\* variable would go on referring to the old tail
EnqueueTail_NotReassigned(tail, last) == tail

\* updateQueue = updateQueue.then(...)...catch(...): the variable now refers to
\* the last promise of the new links
EnqueueTail(tail, last) == last

\* a .catch whose handler rethrows (or a link without .catch): the rejection goes on
CatchOutcome_Propagates(predSt) == predSt

\* .catch(err => console.error(...)): the handler returns, so the promise it
\* gives is fulfilled whether the operation failed or not
CatchOutcome(predSt) == "fulfilled"

Settled(st) == st \in {"fulfilled", "rejected"}
PredSt(q, i) == IF q[i].pred = 0 THEN "fulfilled" ELSE q[q[i].pred].st
PredVal(q, i) == IF q[i].pred = 0 THEN "undefined" ELSE q[q[i].pred].val

Snapshot(st) ==
    [events |-> st.events, domain_state |-> st.domain_state,
     activity_state |-> st.activity_state]

-----------------------------------------------------------------------------
(* index.tsx: Dev Simulator (web preview)                                     *)

\* simUrl.includes(word): a URL typed into the simulator is kept by its parts and
\* the set of keywords that occur in its text
Includes(simUrl, word) == word \in simUrl.words

\* the three tests applied with the login test last
simulateVisitLevel_LoginLast(simUrl) ==
    IF Includes(simUrl, "login") THEN ACCOUNT
    ELSE IF Includes(simUrl, "checkout") THEN TRANSACTION
    ELSE IF Includes(simUrl, "edit") THEN UGC
    ELSE VIEW

\* 4. Update Activity (Simplified for Simulator): three assignments in turn, a
\* later one overwriting an earlier one
simulateVisitLevel(simUrl) ==
    LET level0 == VIEW
        level1 == IF Includes(simUrl, "login") THEN ACCOUNT ELSE level0
        level2 == IF Includes(simUrl, "edit") THEN UGC ELSE level1
        level3 == IF Includes(simUrl, "checkout") THEN TRANSACTION ELSE level2
    IN  level3

\* what simulateVisit writes with its one api.set: the event list, the domain
\* state and the activity state after the visit
SimStoreAfter(store, simUrl, timestamp) ==
    LET domain == simUrl.hostname
        level == simulateVisitLevel(simUrl)
        known == store.activity_state[domain]
        actRecord == IF known.present THEN known
                     ELSE [NoActivityRecord EXCEPT !.present = TRUE]
    IN  [store EXCEPT
           !.events = UpdatedEvents(store.events, domain, timestamp,
                                    store.settings.maxEvents),
           !.domain_state = DomainStateAfter(store.domain_state, domain, timestamp),
           !.activity_state[domain] =
               [actRecord EXCEPT !.last_estimation_level = level,
                                 !.last_estimation_ts = timestamp,
                                 !.counts_by_level[level] = @ + 1]]

-----------------------------------------------------------------------------
(* RP/IdP inference: checkTemporalRoundtrip, roundtrip.js, session_store.js    *)

\* the guard without its test of the two candidates being the same domain
RoundtripRefused_SameAllowed(rpDomain, idpDomain) ==
    ~Truthy(rpDomain) \/ ~Truthy(idpDomain)

\* if (!rpDomain || !idpDomain || rpDomain === idpDomain) return false;
RoundtripRefused(rpDomain, idpDomain) ==
    ~Truthy(rpDomain) \/ ~Truthy(idpDomain) \/ rpDomain = idpDomain

\* the first place at or after `from` where the session visited domain d, 0 if
\* there is none
FirstAt(events, d, from) ==
    LET at == {i \in from .. Len(events) : events[i].domain = d}
    IN  IF at = {} THEN 0 ELSE CHOOSE i \in at : \A j \in at : i <= j

\* isRoundtrip({ rpCandidate, idpCandidate, events }): a scan for the RP, then
\* for the IdP after it, then for the RP again
isRoundtrip(rpCandidate, idpCandidate, events) ==
    LET i == FirstAt(events, rpCandidate, 1)
        j == IF i = 0 THEN 0 ELSE FirstAt(events, idpCandidate, i + 1)
        k == IF j = 0 THEN 0 ELSE FirstAt(events, rpCandidate, j + 1)
    IN  k # 0

\* the session contexts getSessionContext(tabId) resolves to: none, one
\* without events, one with its events
NoContext == [present |-> FALSE, hasEvents |-> FALSE, events |-> <<>>]
ContextOf(events) == [present |-> TRUE, hasEvents |-> TRUE, events |-> events]

\* the rest of checkTemporalRoundtrip with the two candidates exchanged
RoundtripResult_CandidatesSwapped(rpDomain, idpDomain, context) ==
    IF ~context.present \/ ~context.hasEvents THEN FALSE
    ELSE isRoundtrip(idpDomain.s, rpDomain.s, context.events)

\* if (!context || !context.events) return false; return isRoundtrip({...});
RoundtripResult(rpDomain, idpDomain, context) ==
    IF ~context.present \/ ~context.hasEvents THEN FALSE
    ELSE isRoundtrip(rpDomain.s, idpDomain.s, context.events)

-----------------------------------------------------------------------------
(* utils/url_extract.js, utils/domain.js: parameter-embedded domain          *)

\* A URL string is the sequence of its parts: a scheme, the labels of the
\* host, a path, a query; a text that is no URL is one part of plain text.
\* A string value carries its parts; null carries none.
Part(kind, text) == [kind |-> kind, text |-> text]
NullText == [t |-> "null", s |-> <<>>]
Text(parts) == [t |-> "string", s |-> parts]
\* !x for a string or null: the empty string and null are falsy
TruthyText(x) == x.t = "string" /\ x.s # <<>>

\* new URL(str) succeeds when the string starts with a scheme
Parses(str) == str.t = "string" /\ Len(str.s) > 0 /\ str.s[1].kind = "scheme"

\* url.hostname: the labels of the host, without scheme, path and query
Hostname(str) == SelectSeq(str.s, LAMBDA p : p.kind = "label")

\* getDomain of utils/domain.js (normalizeHost): the hostname of an http(s)
\* URL, null for any other text
domain_getDomain(str) ==
    IF ~Parses(str) THEN NullText
    ELSE IF str.s[1].text \notin {"http:", "https:"} THEN NullText
    ELSE Text(Hostname(str))

\* what a step of the function body gives: a value, or an exception
Gave(value) == [threw |-> FALSE, value |-> value]
Threw == [threw |-> TRUE, value |-> NullText]

\* the public suffixes of two labels
TwoLabelSuffixes == {<<"co", "uk">>}

\* the last n parts of a sequence (all of it when it is shorter)
LastParts(parts, n) ==
    IF Len(parts) <= n THEN parts ELSE SubSeq(parts, Len(parts) - n + 1, Len(parts))

\* getETLDPlusOne of utils/domain.js (etldPlusOne): the public suffix and one
\* label more; for a null hostname it returns null or throws (onNull)
getETLDPlusOne(hostname, onNull) ==
    IF hostname.t = "null"
      THEN IF onNull = "throws" THEN Threw ELSE Gave(NullText)
      ELSE LET labels == [i \in 1 .. Len(hostname.s) |-> hostname.s[i].text]
           IN  IF LastParts(labels, 2) \in TwoLabelSuffixes
                 THEN Gave(Text(LastParts(hostname.s, 3)))
                 ELSE Gave(Text(LastParts(hostname.s, 2)))

\* params.get(name): the value of the first parameter of that name, else null
ParamGet(params, name) ==
    LET at == {i \in 1 .. Len(params) : params[i].name = name}
    IN  IF at = {} THEN NullText
        ELSE params[CHOOSE i \in at : \A j \in at : i <= j].value

\* a || b
OrElse(a, b) == IF TruthyText(a) THEN a ELSE b

\* the try block returning the parameter value itself
TryBlock_RawValue(urlStr, onNull) ==
    IF ~urlStr.valid THEN Threw
    ELSE LET redirectUri == OrElse(ParamGet(urlStr.params, "redirect_uri"),
                                   ParamGet(urlStr.params, "return_to"))
         IN  Gave(redirectUri)

\* the try block of extractRedirectUriDomain
TryBlock(urlStr, onNull) ==
    IF ~urlStr.valid THEN Threw
    ELSE LET redirectUri == OrElse(ParamGet(urlStr.params, "redirect_uri"),
                                   ParamGet(urlStr.params, "return_to"))
         IN  IF ~TruthyText(redirectUri) THEN Gave(NullText)
             ELSE getETLDPlusOne(domain_getDomain(redirectUri), onNull)

\* catch (e) { return null; }
CatchAll(outcome) == IF outcome.threw THEN Gave(NullText) ELSE outcome

extractRedirectUriDomain(urlStr, onNull) == CatchAll(TryBlock(urlStr, onNull))

-----------------------------------------------------------------------------
(* The calls that are explored                                                *)

\* --- the calls of the mapper that are explored ---
ScoreSpread == 1
ConfSpread == 1
SeenSpread == 1

Around(c, d) == (c - d) .. (c + d)

MgmtLevels == ActivityLevel \cup {"bogus"}
MgmtScores ==
    {NumVal(n) : n \in {0, 15, 100} \cup Around(SUGGESTED_SCORE, ScoreSpread)}
        \cup {NaNVal}
MgmtConfidences ==
    {NumVal(n) : n \in {0, 10, ConfOne, ConfOne + 50}
                        \cup Around(DECENT_CONFIDENCE, ConfSpread)
                        \cup Around(SUGGESTED_CONFIDENCE, ConfSpread)}
        \cup {NaNVal}
MgmtRpDomains == {Undefined, Null, StrVal("rp.example")}
MgmtSeenCounts ==
    {NumVal(n) : n \in {0} \cup Around(FREQUENT_COUNT, SeenSpread)} \cup {Undefined}
MgmtPins == {Undefined, BoolVal(FALSE), BoolVal(TRUE)}

MgmtArgs ==
    [level : MgmtLevels, score : MgmtScores, confidence : MgmtConfidences,
     rp_domain : MgmtRpDomains, seenCount : MgmtSeenCounts, isPinned : MgmtPins]

MgmtIdle ==
    [pc |-> "idle",
     args |-> [level |-> VIEW, score |-> NumVal(0), confidence |-> NumVal(0),
               rp_domain |-> Undefined, seenCount |-> Undefined,
               isPinned |-> Undefined],
     result |-> NONE]

\* --- the calls of the risk model that are explored ---
RiskConfOver == 20
RiskMaxBase == 120

RiskLevels == ActivityLevel \cup {"bogus", "constructor"}
RiskNumericConfidences == {NumVal(n) : n \in (0 - RiskConfOver) .. (ConfOne + RiskConfOver)}
RiskConfidences ==
    RiskNumericConfidences
        \cup {Undefined, Null, NaNVal, StrVal("high"), InfVal(1), InfVal(-1)}
RiskRawBases == {NumVal(0), NumVal(RiskMaxBase), NaNVal, Undefined}

\* the arguments of the mapper for an estimation scored by the risk model
ScoredArgs(level, confidence, rp_domain, seenCount) ==
    [level |-> level,
     score |-> NumVal(computeRiskScore(computeBaseScore(level), confidence).v),
     confidence |-> confidence, rp_domain |-> rp_domain, seenCount |-> seenCount,
     isPinned |-> BoolVal(FALSE)]

RiskIdle ==
    [pc |-> "idle", level |-> VIEW, base |-> NumVal(0), confidence |-> NumVal(0),
     score |-> Num(0)]

MaxExplicit == 2

ClsUrls ==
    {Url("https:", "news.example.com", "/story"),
     Url("https:", "example.com", "/author/john-doe"),
     Url("https:", "shop.example.com", "/checkout")}
ClsUnknownCodes == {"bogus_code", "DOM_PASSWORD"}
ClsCodes == {DOM_PASSWORD, DOM_EDITOR, DOM_PAYMENT, KNOWN_IDP} \cup ClsUnknownCodes

SeqsUpTo(S, n) == UNION {[1 .. k -> S] : k \in 0 .. n}
ClsSignalLists == SeqsUpTo(ClsCodes, MaxExplicit)

ClsIdle ==
    [pc |-> "idle", copy |-> "", url |-> BadUrl, explicitSignals |-> <<>>,
     evaluated |-> <<>>,
     result |-> [level |-> VIEW, confidence |-> 0, reasons |-> <<>>]]

MaxArrivals == 3
MaxFairArrivals == 2
MaxFailures == 1
MaxTicks == 2
TickMs == 1000
UserMaxEvents == 2

UrlALogin == Url("https:", "a.com", "/login")
UrlBHome == Url("https:", "b.com", "/")
UrlBCheckout == Url("https:", "b.com", "/checkout")

\* the navigations the browser completes
NavDetails ==
    {[frameId |-> 0, url |-> UrlALogin],
     [frameId |-> 0, url |-> UrlBHome],
     [frameId |-> 1, url |-> UrlALogin],
     [frameId |-> 0, url |-> Url("chrome:", "newtab", "/")]}

\* the senders of a message: the popup (no tab), a content script in a tab
NoTab == [hasTab |-> FALSE, url |-> BadUrl]
SignalSenders ==
    {NoTab,
     [hasTab |-> TRUE, url |-> UrlALogin],
     [hasTab |-> TRUE, url |-> Url("chrome:", "newtab", "/")]}

\* the payloads of an ACTIVITY_SIGNAL message sent at time t; a message may
\* lack its payload
SignalPayloads(t) ==
    {NoPayload,
     [present |-> TRUE, url |-> UrlBCheckout,
      signals |-> <<DOM_PAYMENT, "bogus_code">>, timestamp |-> t]}

WorkerIdle ==
    /\ promises = <<>>
    /\ updateQueue = 0
    /\ storage = [events |-> <<>>,
                  settings |-> [collectionEnabled |-> TRUE, maxEvents |-> UserMaxEvents],
                  domain_state |-> [d \in Domains |-> NoDomainRecord],
                  activity_state |-> [d \in Domains |-> NoActivityRecord],
                  policy |-> [last_cleanup_ts |-> 0]]
    /\ badge = ""
    /\ responses = <<>>
    /\ now = TickMs
    /\ arrived = 0
    /\ failures = 0

\* --- the calls of the evidence engine that are explored ---

\* the elements of a set, listed in some order
RECURSIVE SeqOf(_)
SeqOf(S) ==
    IF S = {} THEN <<>>
    ELSE LET x == CHOOSE y \in S : TRUE IN <<x>> \o SeqOf(S \ {x})

\* every subset of the vocabulary, each signal reported once or twice over
EvSignalLists ==
    {SeqOf(S) : S \in SUBSET SIGNAL_CODES} \cup
    {SeqOf(S) \o SeqOf(S) : S \in SUBSET SIGNAL_CODES}

EvIdle ==
    [pc |-> "idle", signals |-> <<>>,
     result |-> [level |-> VIEW, confidence |-> 0, reasons |-> <<>>]]

\* --- the Dev Simulator and the RP/IdP inference before any call ---

MaxSimVisits == 2

\* the URLs typed into the simulator: any of the three keywords, on either
\* domain; a URL of another scheme; a text that is no URL
SimUrls ==
    {[valid |-> TRUE, protocol |-> "https:", hostname |-> d, words |-> w] :
        d \in Domains, w \in SUBSET {"login", "edit", "checkout"}}
    \cup {[valid |-> TRUE, protocol |-> "ftp:", hostname |-> "a.com", words |-> {"login"}],
          [valid |-> FALSE, protocol |-> "", hostname |-> "", words |-> {"checkout"}]}

\* the preview as loaded: nothing simulated yet, its localStorage empty but for
\* the settings
SimIdle ==
    [pc |-> "idle", visits |-> 0,
     url |-> [valid |-> FALSE, protocol |-> "", hostname |-> "", words |-> {}],
     level |-> VIEW,
     store |-> [events |-> <<>>,
                settings |-> [collectionEnabled |-> TRUE, maxEvents |-> UserMaxEvents],
                domain_state |-> [d \in Domains |-> NoDomainRecord],
                activity_state |-> [d \in Domains |-> NoActivityRecord]]]

MaxSessionEvents == 4

\* the candidates handed to checkTemporalRoundtrip
RoundtripCandidates ==
    {Undefined, Null, StrVal(""), StrVal("rp.com"), StrVal("idp.com")}

\* what the session store holds for a tab
SessionContexts ==
    {NoContext, [NoContext EXCEPT !.present = TRUE]} \cup
    {ContextOf(e) :
        e \in SeqsUpTo({[domain |-> d] : d \in {"rp.com", "idp.com", "other.com"}},
                       MaxSessionEvents)}

MaxParams == 2

\* the values a query parameter carries: the callback of the test suite, a
\* host under a two-label suffix with a query, the return address of the test
\* suite, a URL of an application scheme, a text that is no URL, nothing
ParamValues ==
    {Text(<<Part("scheme", "https:"), Part("label", "www"), Part("label", "twitter"),
            Part("label", "com"), Part("path", "/callback")>>),
     Text(<<Part("scheme", "https:"), Part("label", "app"), Part("label", "example"),
            Part("label", "co"), Part("label", "uk"), Part("path", "/cb"),
            Part("query", "?token=abc")>>),
     Text(<<Part("scheme", "https:"), Part("label", "app"), Part("label", "example"),
            Part("label", "com"), Part("path", "/dashboard")>>),
     Text(<<Part("scheme", "myapp:"), Part("label", "callback")>>),
     Text(<<Part("text", "not a url")>>),
     Text(<<>>)}

ParamNames == {"redirect_uri", "return_to", "state"}

\* the URLs handed to extractRedirectUriDomain, as new URL and searchParams
\* read them: a text that is no URL, or a URL with its query parameters
ExtractUrls ==
    {[valid |-> FALSE, params |-> <<>>]} \cup
    {[valid |-> TRUE, params |-> p] :
        p \in SeqsUpTo({[name |-> n, value |-> v] : n \in ParamNames, v \in ParamValues},
                       MaxParams)}

InfIdle ==
    [pc |-> "idle", fn |-> "", rpDomain |-> Undefined, idpDomain |-> Undefined,
     context |-> NoContext, reads |-> 0, result |-> FALSE,
     urlStr |-> [valid |-> FALSE, params |-> <<>>], onNull |-> "null",
     domain |-> NullText]

\* --- the popup ---

MaxToggles == 2
MaxClears == 1

\* the popup as opened: no Reset under way, none done
PopupIdle ==
    [pc |-> "idle", toggles |-> 0, clears |-> 0,
     policy |-> [last_cleanup_ts |-> 0],
     arrivedAtClear |-> 0, openAtClear |-> 0]

-----------------------------------------------------------------------------
(* Actions                                                                    *)

\* a caller invokes mapToManagementState(args) and holds the result
MgmtCall ==
    /\ mgmt.pc = "idle"
    /\ \E a \in MgmtArgs :
          mgmt' = [pc |-> "returned", args |-> a, result |-> mapToManagementState(a)]
    /\ UNCHANGED exceptMgmt

\* a caller scores an estimation and maps it with the score it got:
\* mapToManagementState({ level, score: computeRiskScore({ base:
\* computeBaseScore(level), confidence }), confidence, rp_domain, seenCount })
MgmtScoredCall ==
    /\ mgmt.pc = "idle"
    /\ \E l \in ActivityLevel, c \in RiskNumericConfidences,
          rp \in MgmtRpDomains, seen \in MgmtSeenCounts :
          LET a == ScoredArgs(l, c, rp, seen)
          IN  mgmt' = [pc |-> "scored", args |-> a, result |-> mapToManagementState(a)]
    /\ UNCHANGED exceptMgmt

\* the same page is mapped again with a higher confidence or a higher
\* seenCount, everything else as it was
MgmtRaise ==
    /\ mgmt.pc \in {"returned", "raised"}
    /\ \/ \E c \in MgmtConfidences :
             /\ mgmt.args.confidence.t = "number" /\ c.t = "number"
             /\ c.n > mgmt.args.confidence.n
             /\ LET a == [mgmt.args EXCEPT !.confidence = c]
                IN  mgmt' = [pc |-> "raised", args |-> a,
                             result |-> mapToManagementState(a)]
       \/ \E n \in MgmtSeenCounts :
             /\ mgmt.args.seenCount.t = "number" /\ n.t = "number"
             /\ n.n > mgmt.args.seenCount.n
             /\ LET a == [mgmt.args EXCEPT !.seenCount = n]
                IN  mgmt' = [pc |-> "raised", args |-> a,
                             result |-> mapToManagementState(a)]
    /\ UNCHANGED exceptMgmt

\* the caller drops the result
MgmtDrop ==
    /\ mgmt.pc # "idle"
    /\ mgmt' = MgmtIdle
    /\ UNCHANGED exceptMgmt

\* a caller scores an estimation {level, confidence}:
\* computeRiskScore({ base: computeBaseScore(level), confidence })
RiskScoreEstimation ==
    /\ risk.pc = "idle"
    /\ \E l \in RiskLevels, c \in RiskConfidences :
          risk' = [pc |-> "estimation", level |-> l, base |-> computeBaseScore(l),
                   confidence |-> c,
                   score |-> computeRiskScore(computeBaseScore(l), c)]
    /\ UNCHANGED exceptRisk

\* a caller invokes computeRiskScore({ base, confidence }) with a base of its own
RiskScoreRaw ==
    /\ risk.pc = "idle"
    /\ \E b \in RiskRawBases, c \in RiskConfidences :
          risk' = [pc |-> "raw", level |-> "", base |-> b, confidence |-> c,
                   score |-> computeRiskScore(b, c)]
    /\ UNCHANGED exceptRisk

\* the same estimation is scored again at a higher numeric confidence
RiskRescoreHigher ==
    /\ risk.pc = "estimation"
    /\ risk.confidence.t = "number"
    /\ \E c \in RiskNumericConfidences :
          /\ c.n > risk.confidence.n
          /\ risk' = [risk EXCEPT !.confidence = c,
                                  !.score = computeRiskScore(risk.base, c)]
    /\ UNCHANGED exceptRisk

\* the caller drops the score
RiskDrop ==
    /\ risk.pc # "idle"
    /\ risk' = RiskIdle
    /\ UNCHANGED exceptRisk

\* a caller (the navigation handler with [], the ACTIVITY_SIGNAL handler with
\* payload.signals) invokes the classify that checks the vocabulary
ClassifyCall ==
    /\ cls.pc = "idle"
    /\ \E u \in ClsUrls, sig \in ClsSignalLists :
          cls' = [pc |-> "returned", copy |-> "validating", url |-> u,
                  explicitSignals |-> sig,
                  evaluated |-> allSignals(u, sig),
                  result |-> classify(u, sig)]
    /\ UNCHANGED exceptCls

\* a caller invokes the copy of classify that has no vocabulary check
ClassifyCall_NoValidation ==
    /\ cls.pc = "idle"
    /\ \E u \in ClsUrls, sig \in ClsSignalLists :
          cls' = [pc |-> "returned", copy |-> "unvalidated", url |-> u,
                  explicitSignals |-> sig,
                  evaluated |-> allSignals_NoValidation(u, sig),
                  result |-> classify_NoValidation(u, sig)]
    /\ UNCHANGED exceptCls

\* the caller drops the estimation
ClsDrop ==
    /\ cls.pc = "returned"
    /\ cls' = ClsIdle
    /\ UNCHANGED exceptCls

\* --- service worker: events and messages arrive ---

\* chrome.webNavigation.onCompleted: the listener chains the handler on updateQueue
NavCompleted ==
    /\ arrived < MaxArrivals
    /\ \E details \in NavDetails :
          LET n == Len(promises)
              req == [NoReq EXCEPT !.frameId = details.frameId, !.url = details.url,
                                   !.paused = ~storage.settings.collectionEnabled]
          IN  IF PassesFilter(details.url)
                THEN /\ promises' = promises \o
                            <<NewPromise("then", "nav", updateQueue, arrived + 1, req),
                              NewPromise("catch", "log", n + 1, arrived + 1, NoReq)>>
                     /\ updateQueue' = EnqueueTail(updateQueue, n + 2)
                ELSE UNCHANGED <<promises, updateQueue>>
    /\ arrived' = arrived + 1
    /\ UNCHANGED <<storage, badge, responses, now, failures, pureCalls>>

\* chrome.runtime.onMessage, message.type === 'RUN_CLEANUP'
RunCleanupMessage ==
    /\ arrived < MaxArrivals
    /\ \E force \in BOOLEAN :
          LET n == Len(promises)
              req == [NoReq EXCEPT !.force = force]
          IN  /\ promises' = promises \o
                     <<NewPromise("then", "cleanup", updateQueue, arrived + 1, req),
                       NewPromise("then", "respond", n + 1, arrived + 1, NoReq),
                       NewPromise("catch", "respondFail", n + 2, arrived + 1, NoReq)>>
              /\ updateQueue' = EnqueueTail(updateQueue, n + 3)
    /\ arrived' = arrived + 1
    /\ UNCHANGED <<storage, badge, responses, now, failures, pureCalls>>

\* chrome.runtime.onMessage, message.type === 'ACTIVITY_SIGNAL'
ActivitySignalMessage ==
    /\ arrived < MaxArrivals
    /\ \E sender \in SignalSenders, t \in {now, now - TickMs} :
       \E payload \in SignalPayloads(t) :
          LET n == Len(promises)
              domain == SignalDomain(sender, payload)
              req == [NoReq EXCEPT !.domain = domain, !.payload = payload,
                                   !.paused = ~storage.settings.collectionEnabled]
          IN  IF sender.hasTab /\ sender.url.valid /\ domain # ""
                THEN /\ promises' = promises \o
                            <<NewPromise("then", "signal", updateQueue, arrived + 1, req),
                              NewPromise("catch", "log", n + 1, arrived + 1, NoReq)>>
                     /\ updateQueue' = EnqueueTail(updateQueue, n + 2)
                ELSE UNCHANGED <<promises, updateQueue>>
    /\ arrived' = arrived + 1
    /\ UNCHANGED <<storage, badge, responses, now, failures, pureCalls>>

\* time passes
Tick ==
    /\ now < (MaxTicks + 1) * TickMs
    /\ now' = now + TickMs
    /\ UNCHANGED <<promises, updateQueue, storage, badge, responses, arrived, failures,
                   pureCalls>>

\* --- service worker: the promise chain runs ---

Ready(i) == promises[i].st = "pending" /\ Settled(PredSt(promises, i))
Awaiting(i, op, pc) ==
    promises[i].st = "running" /\ promises[i].op = op /\ promises[i].pc = pc
Started(node, pc) == [node EXCEPT !.st = "running", !.ran = TRUE, !.pc = pc]
Put(i, node) == promises' = [promises EXCEPT ![i] = node]

\* a .then whose promise was rejected, a .catch whose promise was fulfilled:
\* the callback is not called and the outcome is handed on
PassThrough ==
    \E i \in 1 .. Len(promises) :
        /\ Ready(i)
        /\ \/ promises[i].kind = "then" /\ PredSt(promises, i) = "rejected"
           \/ promises[i].kind = "catch" /\ PredSt(promises, i) = "fulfilled"
        /\ Put(i, Settle(promises[i], PredSt(promises, i), PredVal(promises, i)))
        /\ UNCHANGED <<updateQueue, storage, badge, responses, now, arrived, failures,
                       pureCalls>>

\* .catch(err => console.error(...)) and, for RUN_CLEANUP,
\* .catch(err => sendResponse({ success: false, error: err.message }))
CatchHandler ==
    \E i \in 1 .. Len(promises) :
        /\ Ready(i)
        /\ promises[i].kind = "catch"
        /\ PredSt(promises, i) = "rejected"
        /\ Put(i, Settle([promises[i] EXCEPT !.ran = TRUE],
                         CatchOutcome(PredSt(promises, i)), "undefined"))
        /\ responses' = IF promises[i].op = "respondFail"
                          THEN sendResponse(responses, promises[i].id, FALSE)
                          ELSE responses
        /\ UNCHANGED <<updateQueue, storage, badge, now, arrived, failures, pureCalls>>

\* the navigation handler starts: main-frame filter, getDomain, storage.get
StartNav ==
    \E i \in 1 .. Len(promises) :
        /\ Ready(i)
        /\ promises[i].kind = "then" /\ promises[i].op = "nav"
        /\ PredSt(promises, i) = "fulfilled"
        /\ LET node == [promises[i] EXCEPT !.ran = TRUE]
           IN  IF node.req.frameId # 0 \/ getDomain(node.req.url) = ""
                 THEN Put(i, Settle(node, "fulfilled", "undefined"))
                 ELSE Put(i, [Started(node, "get_events") EXCEPT !.pre = Snapshot(storage)])
        /\ UNCHANGED <<updateQueue, storage, badge, responses, now, arrived, failures,
                       pureCalls>>

\* storage.get([EVENTS_KEY, SETTINGS_KEY]) returns: pause check, Date.now(),
\* dedupe, A. Store Raw Event up to storage.set
NavEventsRead ==
    \E i \in 1 .. Len(promises) :
        /\ Awaiting(i, "nav", "get_events")
        /\ LET node == promises[i]
               domain == getDomain(node.req.url)
               settings == storage.settings
           IN  IF CollectionPaused(settings) \/ IsBurst(storage.events, domain, now)
                 THEN Put(i, Settle(node, "fulfilled", "undefined"))
                 ELSE Put(i, [node EXCEPT
                                !.pc = "set_events",
                                !.ts = now,
                                !.updatedEvents =
                                    UpdatedEvents(storage.events, domain, now,
                                                  settings.maxEvents)])
        /\ UNCHANGED <<updateQueue, storage, badge, responses, now, arrived, failures,
                       pureCalls>>

\* storage.set({ [EVENTS_KEY]: updatedEvents }) returns; updateDomainState reads
NavEventsWritten ==
    \E i \in 1 .. Len(promises) :
        /\ Awaiting(i, "nav", "set_events")
        /\ storage' = [storage EXCEPT !.events = promises[i].updatedEvents]
        /\ Put(i, [promises[i] EXCEPT !.pc = "get_domain"])
        /\ UNCHANGED <<updateQueue, badge, responses, now, arrived, failures, pureCalls>>

\* updateDomainState: storage.get([DOMAIN_STATE_KEY]) returns, the record is
\* updated, storage.set is called
DomainStateRead ==
    \E i \in 1 .. Len(promises) :
        /\ Awaiting(i, "nav", "get_domain")
        /\ Put(i, [promises[i] EXCEPT
                      !.pc = "set_domain",
                      !.w = DomainStateAfter(storage.domain_state,
                                             getDomain(promises[i].req.url),
                                             promises[i].ts)])
        /\ UNCHANGED <<updateQueue, storage, badge, responses, now, arrived, failures,
                       pureCalls>>

\* updateDomainState: storage.set returns; C. classify(details.url, []);
\* updateActivityState reads
DomainStateWritten ==
    \E i \in 1 .. Len(promises) :
        /\ Awaiting(i, "nav", "set_domain")
        /\ storage' = [storage EXCEPT !.domain_state = promises[i].w]
        /\ Put(i, [promises[i] EXCEPT
                      !.pc = "get_activity",
                      !.w = NoWrite,
                      !.level = classify(promises[i].req.url, <<>>).level])
        /\ UNCHANGED <<updateQueue, badge, responses, now, arrived, failures, pureCalls>>

\* the ACTIVITY_SIGNAL handler starts: classify(payload.url, payload.signals),
\* updateActivityState reads
StartSignal ==
    \E i \in 1 .. Len(promises) :
        /\ Ready(i)
        /\ promises[i].kind = "then" /\ promises[i].op = "signal"
        /\ PredSt(promises, i) = "fulfilled"
        /\ LET node == [promises[i] EXCEPT !.ran = TRUE]
               payload == node.req.payload
           IN  IF ~payload.present
                 THEN Put(i, Settle(node, "rejected", "TypeError"))
                 ELSE Put(i, [Started(node, "get_activity") EXCEPT
                                !.ts = payload.timestamp,
                                !.level = classify(payload.url, payload.signals).level])
        /\ UNCHANGED <<updateQueue, storage, badge, responses, now, arrived, failures,
                       pureCalls>>

\* updateActivityState: storage.get([ACTIVITY_STATE_KEY]) returns, the record is
\* updated, storage.set is called
ActivityStateRead ==
    \E i \in 1 .. Len(promises) :
        /\ promises[i].st = "running" /\ promises[i].pc = "get_activity"
        /\ LET node == promises[i]
               domain == IF node.op = "nav" THEN getDomain(node.req.url)
                         ELSE node.req.domain
           IN  Put(i, [node EXCEPT
                         !.pc = "set_activity",
                         !.w = ActivityStateAfter(storage.activity_state, domain,
                                                  node.level, node.ts)])
        /\ UNCHANGED <<updateQueue, storage, badge, responses, now, arrived, failures,
                       pureCalls>>

\* updateActivityState: storage.set returns; the navigation handler goes on with
\* D. Update Badge and E. Retention Check, the signal handler is done
ActivityStateWritten ==
    \E i \in 1 .. Len(promises) :
        /\ promises[i].st = "running" /\ promises[i].pc = "set_activity"
        /\ storage' = [storage EXCEPT !.activity_state = promises[i].w]
        /\ IF promises[i].op = "nav"
             THEN /\ badge' = BadgeText(promises[i].updatedEvents)
                  /\ Put(i, [promises[i] EXCEPT !.pc = "retention_get", !.w = NoWrite])
             ELSE /\ UNCHANGED badge
                  /\ Put(i, Settle(promises[i], "fulfilled", "undefined"))
        /\ UNCHANGED <<updateQueue, responses, now, arrived, failures, pureCalls>>

\* the RUN_CLEANUP handler starts: performRetentionCheck(storage, message.force)
StartCleanup ==
    \E i \in 1 .. Len(promises) :
        /\ Ready(i)
        /\ promises[i].kind = "then" /\ promises[i].op = "cleanup"
        /\ PredSt(promises, i) = "fulfilled"
        /\ Put(i, Started(promises[i], "retention_get"))
        /\ UNCHANGED <<updateQueue, storage, badge, responses, now, arrived, failures,
                       pureCalls>>

\* performRetentionCheck: the policy and the data are read; nothing is due
\* unless the check is forced
RetentionRead ==
    \E i \in 1 .. Len(promises) :
        /\ promises[i].st = "running" /\ promises[i].pc = "retention_get"
        /\ LET node == promises[i]
           IN  IF node.req.force
                 THEN Put(i, [node EXCEPT
                                !.pc = "retention_set",
                                !.w = [storage.policy EXCEPT !.last_cleanup_ts = now]])
                 ELSE Put(i, Settle(node, "fulfilled",
                                    IF node.op = "cleanup" THEN "null" ELSE "undefined"))
        /\ UNCHANGED <<updateQueue, storage, badge, responses, now, arrived, failures,
                       pureCalls>>

\* performRetentionCheck: the cleanup is written back and its stats returned
RetentionWritten ==
    \E i \in 1 .. Len(promises) :
        /\ promises[i].st = "running" /\ promises[i].pc = "retention_set"
        /\ storage' = [storage EXCEPT !.policy = promises[i].w]
        /\ Put(i, Settle(promises[i], "fulfilled",
                         IF promises[i].op = "cleanup" THEN "stats" ELSE "undefined"))
        /\ UNCHANGED <<updateQueue, badge, responses, now, arrived, failures, pureCalls>>

\* .then((stats) => sendResponse({ success: true, stats }))
RespondSuccess ==
    \E i \in 1 .. Len(promises) :
        /\ Ready(i)
        /\ promises[i].kind = "then" /\ promises[i].op = "respond"
        /\ PredSt(promises, i) = "fulfilled"
        /\ responses' = sendResponse(responses, promises[i].id, TRUE)
        /\ Put(i, Settle([promises[i] EXCEPT !.ran = TRUE], "fulfilled", "undefined"))
        /\ UNCHANGED <<updateQueue, storage, badge, now, arrived, failures, pureCalls>>

\* the storage call a handler awaits rejects: the await throws and the handler's
\* promise is rejected
StorageFails ==
    \E i \in 1 .. Len(promises) :
        /\ failures < MaxFailures
        /\ promises[i].st = "running"
        /\ Put(i, Settle(promises[i], "rejected", "storage error"))
        /\ failures' = failures + 1
        /\ UNCHANGED <<updateQueue, storage, badge, responses, now, arrived, pureCalls>>

\* --- evidence engine ---

\* a caller invokes evaluateSignals(signals) and holds the estimation
EvaluateCall ==
    /\ ev.pc = "idle"
    /\ \E signals \in EvSignalLists :
          ev' = [pc |-> "returned", signals |-> signals,
                 result |-> evaluateSignals(signals)]
    /\ UNCHANGED exceptEv

\* the caller drops the estimation
EvDrop ==
    /\ ev.pc = "returned"
    /\ ev' = EvIdle
    /\ UNCHANGED exceptEv

\* --- Dev Simulator ---

\* the Simulate button: simulateVisit() from new URL(simUrl) to api.set
SimulateVisit ==
    /\ sim.visits < MaxSimVisits
    /\ \E simUrl \in SimUrls :
          LET entered == [sim EXCEPT !.visits = @ + 1, !.url = simUrl, !.level = VIEW]
          IN  IF ~simUrl.valid \/ simUrl.protocol \notin {"http:", "https:"}
                THEN sim' = [entered EXCEPT !.pc = "alerted"]
              ELSE IF CollectionPaused(sim.store.settings)
                THEN sim' = [entered EXCEPT !.pc = "paused"]
              ELSE IF IsBurst(sim.store.events, simUrl.hostname, now)
                THEN sim' = [entered EXCEPT !.pc = "deduped"]
              ELSE sim' = [entered EXCEPT
                             !.pc = "stored",
                             !.level = simulateVisitLevel(simUrl),
                             !.store = SimStoreAfter(sim.store, simUrl, now)]
    /\ UNCHANGED exceptSim

\* --- RP/IdP inference ---

\* checkTemporalRoundtrip(tabId, rpDomain, idpDomain) up to its await
RoundtripCall ==
    /\ inf.pc = "idle"
    /\ \E rpDomain \in RoundtripCandidates, idpDomain \in RoundtripCandidates :
          LET call == [InfIdle EXCEPT !.fn = "roundtrip", !.rpDomain = rpDomain,
                                      !.idpDomain = idpDomain]
          IN  IF RoundtripRefused(rpDomain, idpDomain)
                THEN inf' = [call EXCEPT !.pc = "resolved", !.result = FALSE]
                ELSE inf' = [call EXCEPT !.pc = "awaiting_context", !.reads = 1]
    /\ UNCHANGED exceptInf

\* getSessionContext(tabId) resolves: the context test, then isRoundtrip
SessionContextRead ==
    /\ inf.pc = "awaiting_context"
    /\ \E context \in SessionContexts :
          inf' = [inf EXCEPT !.pc = "resolved", !.context = context,
                             !.result = RoundtripResult(inf.rpDomain, inf.idpDomain,
                                                        context)]
    /\ UNCHANGED exceptInf

\* getSessionContext(tabId) rejects: the await throws
SessionContextFails ==
    /\ inf.pc = "awaiting_context"
    /\ inf' = [inf EXCEPT !.pc = "rejected"]
    /\ UNCHANGED exceptInf

\* extractRedirectUriDomain(urlStr): the try block and its catch
ExtractCall ==
    /\ inf.pc = "idle"
    /\ \E urlStr \in ExtractUrls, onNull \in {"null", "throws"} :
          LET outcome == extractRedirectUriDomain(urlStr, onNull)
          IN  inf' = [InfIdle EXCEPT !.fn = "extract", !.urlStr = urlStr,
                                     !.onNull = onNull,
                                     !.pc = IF outcome.threw THEN "threw" ELSE "returned",
                                     !.domain = outcome.value]
    /\ UNCHANGED exceptInf

\* the caller drops the result
InfDrop ==
    /\ inf.pc \in {"resolved", "rejected", "returned", "threw"}
    /\ inf' = InfIdle
    /\ UNCHANGED exceptInf

\* --- the popup (src/main.tsx), on chrome.storage.local ---

\* handleTogglePause: api.set({ settings: { ...settings, collectionEnabled: !... } })
TogglePause ==
    /\ popup.toggles < MaxToggles
    /\ popup' = [popup EXCEPT !.toggles = @ + 1]
    /\ storage' = [storage EXCEPT !.settings.collectionEnabled = ~@]
    /\ UNCHANGED <<mgmt, risk, cls, ev, sim, inf, promises, updateQueue, badge,
                   responses, now, arrived, failures>>

\* handleClear: confirmed, api.get([POLICY_KEY]) returns
ClearPolicyRead ==
    /\ popup.pc = "idle"
    /\ popup.clears < MaxClears
    /\ popup' = [popup EXCEPT !.pc = "clear_set", !.policy = storage.policy]
    /\ UNCHANGED <<mgmt, risk, cls, ev, sim, inf, worker>>

\* handleClear: api.set of the empty event list, the empty maps and the policy
\* with its cleanup timer reset; the badge is cleared
ClearWritten ==
    /\ popup.pc = "clear_set"
    /\ storage' = [storage EXCEPT
                     !.events = <<>>,
                     !.domain_state = [d \in Domains |-> NoDomainRecord],
                     !.activity_state = [d \in Domains |-> NoActivityRecord],
                     !.policy = [popup.policy EXCEPT !.last_cleanup_ts = 0]]
    /\ badge' = ""
    /\ popup' = [popup EXCEPT
                   !.pc = "idle", !.clears = @ + 1,
                   !.arrivedAtClear = arrived,
                   !.openAtClear =
                       Cardinality({i \in 1 .. Len(promises) :
                                      /\ promises[i].kind = "then"
                                      /\ promises[i].op \in {"nav", "signal"}
                                      /\ ~Settled(promises[i].st)})]
    /\ UNCHANGED <<mgmt, risk, cls, ev, sim, inf, promises, updateQueue, responses,
                   now, arrived, failures>>

-----------------------------------------------------------------------------
(* Specifications                                                             *)

\* no call of a pure function is in progress
PureIdle ==
    /\ mgmt = MgmtIdle /\ risk = RiskIdle /\ cls = ClsIdle
    /\ ev = EvIdle /\ sim = SimIdle /\ inf = InfIdle /\ popup = PopupIdle

InitMgmt == PureIdle /\ WorkerIdle
NextMgmt == MgmtCall \/ MgmtScoredCall \/ MgmtRaise \/ MgmtDrop
SpecMgmt == InitMgmt /\ [][NextMgmt]_vars

InitRisk == PureIdle /\ WorkerIdle
NextRisk == RiskScoreEstimation \/ RiskScoreRaw \/ RiskRescoreHigher \/ RiskDrop
SpecRisk == InitRisk /\ [][NextRisk]_vars

InitCls == PureIdle /\ WorkerIdle
NextCls == SimulateVisit \/ ClassifyCall \/ ClassifyCall_NoValidation \/ ClsDrop
SpecCls == InitCls /\ [][NextCls]_vars

\* the service worker
Init == PureIdle /\ WorkerIdle

\* the RP/IdP inference under its callers
NextInf ==
    \/ RoundtripCall \/ SessionContextRead \/ SessionContextFails
    \/ ExtractCall \/ InfDrop
SpecInf == Init /\ [][NextInf]_vars

\* the evidence engine under its callers
NextEv == EvaluateCall \/ EvDrop
SpecEv == Init /\ [][NextEv]_vars
Arrival == NavCompleted \/ RunCleanupMessage \/ ActivitySignalMessage
MicrotaskStep ==
    PassThrough \/ CatchHandler \/ StartNav \/ StartSignal \/ StartCleanup \/ RespondSuccess
StorageReturns ==
    \/ NavEventsRead \/ NavEventsWritten \/ DomainStateRead \/ DomainStateWritten
    \/ ActivityStateRead \/ ActivityStateWritten \/ RetentionRead \/ RetentionWritten
StorageSettles == StorageReturns \/ StorageFails
Next ==
    \/ NavCompleted \/ RunCleanupMessage \/ ActivitySignalMessage \/ Tick
    \/ PassThrough \/ CatchHandler \/ StartNav \/ StartSignal \/ StartCleanup
    \/ RespondSuccess
    \/ NavEventsRead \/ NavEventsWritten \/ DomainStateRead \/ DomainStateWritten
    \/ ActivityStateRead \/ ActivityStateWritten \/ RetentionRead \/ RetentionWritten
    \/ StorageFails
Spec == Init /\ [][Next]_vars

\* the service worker when every microtask runs and every storage call settles,
\* followed over MaxFairArrivals events and messages
FairArrival == arrived < MaxFairArrivals /\ Arrival
FairNext == FairArrival \/ Tick \/ MicrotaskStep \/ StorageSettles
FairSpec ==
    Init /\ [][FairNext]_vars /\ WF_vars(MicrotaskStep) /\ WF_vars(StorageSettles)

\* the application as it is loaded: as the extension, where the service worker
\* runs, or as the web preview (no chrome.storage), where the Dev Simulator
\* stands in for it
ExtensionNav == sim.visits = 0 /\ NavCompleted
ExtensionCleanup == sim.visits = 0 /\ RunCleanupMessage
ExtensionSignal == sim.visits = 0 /\ ActivitySignalMessage
PreviewVisit == arrived = 0 /\ SimulateVisit
NextApp ==
    \/ ExtensionNav \/ ExtensionCleanup \/ ExtensionSignal \/ PreviewVisit
    \/ Tick \/ MicrotaskStep \/ StorageSettles
SpecApp == Init /\ [][NextApp]_vars

\* the extension with its popup open: the service worker over MaxFairArrivals
\* events and messages, the user pausing, resuming and resetting meanwhile
NextUi ==
    \/ FairArrival \/ Tick \/ MicrotaskStep \/ StorageSettles
    \/ TogglePause \/ ClearPolicyRead \/ ClearWritten
SpecUi == Init /\ [][NextUi]_vars

-----------------------------------------------------------------------------
(* Properties                                                                 *)

\* --- the arguments as the claims read them ---
ArgPinned == mgmt.args.isPinned = BoolVal(TRUE)
ArgConf == ToNumber(mgmt.args.confidence)
ArgScore == ToNumber(mgmt.args.score)
ArgSeen == ToNumber(WithDefault(mgmt.args.seenCount, NumVal(0)))
ArgHasRp == mgmt.args.rp_domain.t = "string" /\ mgmt.args.rp_domain.s # ""
Returned == mgmt.pc = "returned"

\* C1: the mapper returns PINNED whenever isPinned is true, whatever the level
\* (recognized or not), score, confidence, rp_domain and seenCount are, and it
\* returns PINNED only when isPinned is true.
C1_PinnedIffIsPinned ==
    Returned => (mgmt.result = PINNED <=> ArgPinned)

\* a pinned call whose other arguments alone would give SUGGESTED, and one with
\* an unrecognized level
C1_Witness ==
    /\ Returned
    /\ ArgPinned
    /\ mgmt.args.level = "bogus"
    /\ ArgConf = Num(ConfOne)
    /\ mgmt.result = PINNED

C1_WitnessSuggestedArgs ==
    /\ Returned
    /\ ArgPinned
    /\ mgmt.args.level = TRANSACTION
    /\ ArgConf = Num(SUGGESTED_CONFIDENCE)
    /\ mgmt.result = PINNED

\* what C2 says makes a call SUGGESTED
C2_SuggestedCondition ==
    /\ ~IsNaN(ArgConf) /\ ~JsLT(ArgConf, Num(80))
    /\ \/ mgmt.args.level = TRANSACTION
       \/ /\ mgmt.args.level = ACCOUNT
          /\ ArgHasRp \/ (~IsNaN(ArgScore) /\ ~JsLT(ArgScore, Num(20)))

\* C2: with isPinned false the mapper returns SUGGESTED if and only if
\* confidence >= 0.8 and (level = TRANSACTION, or level = ACCOUNT and (an RP
\* domain is present or score >= 20)); ACCOUNT at confidence 0.8 without RP and
\* with score 15 is not SUGGESTED, and UGC and VIEW are never SUGGESTED.
C2_SuggestedIff ==
    (Returned /\ ~ArgPinned) =>
        /\ mgmt.result = SUGGESTED <=> C2_SuggestedCondition
        /\ ( /\ mgmt.args.level = ACCOUNT
             /\ ArgConf = Num(80)
             /\ ~ArgHasRp
             /\ ArgScore = Num(15) ) => mgmt.result # SUGGESTED
        /\ mgmt.args.level \in {UGC, VIEW} => mgmt.result # SUGGESTED

\* the scenario of C2: ACCOUNT, confidence 0.8, no RP, score 15 gives NEEDS_REVIEW
C2_Witness ==
    /\ Returned
    /\ ~ArgPinned
    /\ mgmt.args.level = ACCOUNT
    /\ ArgConf = Num(80)
    /\ ~ArgHasRp
    /\ ArgScore = Num(15)
    /\ mgmt.result = NEEDS_REVIEW

\* what C3 says makes a call NEEDS_REVIEW
C3_ReviewCondition ==
    LET confOk == ~IsNaN(ArgConf) /\ ~JsLT(ArgConf, Num(60))
        freq == JsLT(Num(50), ArgSeen)
    IN  \/ mgmt.args.level # VIEW /\ (confOk \/ freq)
        \/ mgmt.args.level = VIEW /\ freq

\* C3: with isPinned false and the SUGGESTED rule not firing, the mapper returns
\* NEEDS_REVIEW exactly when (level != VIEW and (confidence >= 0.6 or seenCount >
\* 50)) or (level = VIEW and seenCount > 50), and NONE otherwise; VIEW with 51
\* visits at confidence 0.1 is NEEDS_REVIEW, VIEW with at most 50 visits is NONE.
C3_NeedsReviewIff ==
    (Returned /\ ~ArgPinned /\ ~C2_SuggestedCondition) =>
        /\ mgmt.result = (IF C3_ReviewCondition THEN NEEDS_REVIEW ELSE NONE)
        /\ ( /\ mgmt.args.level = VIEW
             /\ ArgSeen = Num(51)
             /\ ArgConf = Num(10) ) => mgmt.result = NEEDS_REVIEW
        /\ (mgmt.args.level = VIEW /\ ~JsLT(Num(50), ArgSeen)) => mgmt.result = NONE

\* the scenario of C3: VIEW, 51 visits, confidence 0.1 gives NEEDS_REVIEW
C3_Witness ==
    /\ Returned
    /\ ~ArgPinned
    /\ mgmt.args.level = VIEW
    /\ ArgSeen = Num(51)
    /\ ArgConf = Num(10)
    /\ mgmt.result = NEEDS_REVIEW

Scored == risk.pc # "idle"

\* C8: for every base and every confidence value, out of range or malformed
\* included, computeRiskScore returns an integer in 0..100, never NaN.
C8_ScoreAlwaysInRange ==
    Scored => (IsFin(risk.score) /\ risk.score.v \in 0 .. 100)

\* the table of C9 and its fallback for an unrecognized level
C9_Base(level) ==
    CASE level = TRANSACTION -> 70
      [] level = UGC -> 45
      [] level = ACCOUNT -> 30
      [] OTHER -> 5

\* n is base x confidence (hundredths), clamped to [0, 100] and rounded to the
\* nearest integer, a half rounding up
C9_IsRounded(n, base, conf) ==
    LET raw == base * conf
        clamped == IF raw < 0 THEN 0 ELSE IF raw > 10000 THEN 10000 ELSE raw
    IN  100 * n - 50 <= clamped /\ clamped < 100 * n + 50

\* C9: the score of an estimation is round(clamp(base x confidence, 0, 100)) with
\* base 70 for TRANSACTION, 45 for UGC, 30 for ACCOUNT, 5 for VIEW and 5 for any
\* unrecognized level; TRANSACTION at confidence 1.0 scores exactly 70.
C9_ScoreFormula ==
    (risk.pc = "estimation" /\ risk.confidence.t = "number") =>
        /\ risk.base = NumVal(C9_Base(risk.level))
        /\ IsFin(risk.score)
        /\ C9_IsRounded(risk.score.v, C9_Base(risk.level), risk.confidence.n)
        /\ (risk.level = TRANSACTION /\ risk.confidence.n = 100) => risk.score = Num(70)

ConfInUnit(c) == c.t = "number" /\ c.n \in 0 .. 100

\* C10: for every level of the enumeration and every confidence in [0,1] the
\* score never exceeds the level's base, and for a fixed level a higher
\* confidence never gives a lower score.
C10_ConfidenceOnlyDiscounts ==
    /\ []( ( /\ risk.pc = "estimation"
             /\ risk.level \in ActivityLevel
             /\ ConfInUnit(risk.confidence) )
           => (IsFin(risk.score) /\ risk.score.v <= C9_Base(risk.level)) )
    /\ [][ ( /\ risk.pc = "estimation"
             /\ risk'.pc = "estimation"
             /\ risk.level \in ActivityLevel
             /\ risk'.level = risk.level
             /\ ConfInUnit(risk.confidence)
             /\ ConfInUnit(risk'.confidence)
             /\ risk'.confidence.n >= risk.confidence.n )
           => risk'.score.v >= risk.score.v ]_vars

\* an ACCOUNT estimation scored at full confidence reaches its base of 30
\* after having been scored lower at a lower confidence
C10_Witness ==
    /\ risk.pc = "estimation"
    /\ risk.level = ACCOUNT
    /\ risk.confidence = NumVal(100)
    /\ risk.score = Num(30)

\* the codes of a list that are in the vocabulary, in order
C7_KnownOnly(sig) == SelectSeq(sig, LAMBDA c : c \in SIGNAL_CODES)

\* C7: classify gives for a list of explicit signals what it gives for the list
\* with the codes outside SIGNAL_CODES removed: no unknown code is passed to
\* evaluateSignals, none appears in reasons, none changes level or confidence.
C7_UnknownCodesInert ==
    cls.pc = "returned" =>
        /\ Elems(cls.evaluated) \subseteq SIGNAL_CODES
        /\ Elems(cls.result.reasons) \subseteq SIGNAL_CODES
        /\ cls.result = classify(cls.url, C7_KnownOnly(cls.explicitSignals))

\* C26: the ACCOUNT guard of the SUGGESTED rule can reject end to end: some
\* confidence of at least 0.8 gives an ACCOUNT estimation without RP domain a
\* score, computeRiskScore(computeBaseScore(ACCOUNT), confidence), below 20,
\* and the mapper answers NEEDS_REVIEW for it (stated of every ACCOUNT
\* estimation without RP domain that has been scored and mapped).
C26_GuardRejectsEndToEnd ==
    ( /\ mgmt.pc = "scored"
      /\ mgmt.args.level = ACCOUNT
      /\ ~Truthy(mgmt.args.rp_domain) )
    => \E c \in RiskNumericConfidences :
          LET a == ScoredArgs(ACCOUNT, c, mgmt.args.rp_domain, mgmt.args.seenCount)
          IN  /\ c.n >= SUGGESTED_CONFIDENCE
              /\ a.score.n < SUGGESTED_SCORE
              /\ mapToManagementState(a) = NEEDS_REVIEW

\* What holds instead of C26: an ACCOUNT estimation of confidence 0.8 or more
\* is scored 24 or more and mapped to SUGGESTED, with or without RP domain.
C26_ScoredAccountPassesGuard ==
    ( /\ mgmt.pc = "scored"
      /\ mgmt.args.level = ACCOUNT
      /\ mgmt.args.confidence.n >= SUGGESTED_CONFIDENCE )
    => (mgmt.args.score.n >= 24 /\ mgmt.result = SUGGESTED)

\* the order of the computed states by the attention they ask for
C27_Rank(state) ==
    CASE state = NONE -> 0
      [] state = NEEDS_REVIEW -> 1
      [] state = SUGGESTED -> 2
      [] state = PINNED -> 3

\* C27: with isPinned false and level, score and rp_domain as they are, a
\* higher confidence never gives a lower state in the order NONE <
\* NEEDS_REVIEW < SUGGESTED, and neither does a higher seenCount.
C27_MonotoneInConfidenceAndSeen ==
    [][( /\ mgmt.pc \in {"returned", "raised"} /\ mgmt'.pc = "raised"
         /\ ~Truthy(WithDefault(mgmt.args.isPinned, BoolVal(FALSE))) )
       => ( /\ mgmt'.args.level = mgmt.args.level
            /\ mgmt'.args.score = mgmt.args.score
            /\ mgmt'.args.rp_domain = mgmt.args.rp_domain
            /\ mgmt'.result # PINNED
            /\ C27_Rank(mgmt'.result) >= C27_Rank(mgmt.result) )]_vars

\* an ACCOUNT page without RP domain whose confidence was raised to 0.8: now
\* SUGGESTED
C27_Witness ==
    /\ mgmt.pc = "raised"
    /\ mgmt.args.level = ACCOUNT
    /\ mgmt.args.confidence = NumVal(SUGGESTED_CONFIDENCE)
    /\ mgmt.args.isPinned = BoolVal(FALSE)
    /\ mgmt.args.rp_domain = Undefined
    /\ mgmt.result = SUGGESTED

\* --- evidence engine ---

\* C11: for every set of signals none of which is in EVIDENCE_WEIGHTS (only
\* auxiliary evidence), the confidence is at most CAP_WITHOUT_STRONG_EVIDENCE
\* (0.6), however many auxiliary signals are combined.
C11_AuxOnlyCapped ==
    (ev.pc = "returned" /\ Elems(ev.signals) \cap StrongCodes = {}) =>
        /\ ev.result.confidence <= CAP_WITHOUT_STRONG_EVIDENCE
        /\ ev.result.confidence <= 60

\* all three auxiliary signals, each reported twice, and no strong one
C11_Witness ==
    /\ ev.pc = "returned"
    /\ Elems(ev.signals) = AuxCodes
    /\ Len(ev.signals) = 2 * Cardinality(AuxCodes)
    /\ ev.result.confidence > 0

\* C12: for every subset of the vocabulary the confidence lies in [0,1]: the
\* weights of EVIDENCE_WEIGHTS sum to 2.0, and the sum of strong and auxiliary
\* confidence is clamped so that it never exceeds 1 and is never negative.
C12_ConfidenceInUnit ==
    /\ SumWeights(StrongCodes) = 2 * ConfOne
    /\ ev.pc = "returned" => ev.result.confidence \in 0 .. ConfOne

\* every signal of the vocabulary at once: the weights alone sum to 2.0 and the
\* confidence is 1
C12_Witness ==
    /\ ev.pc = "returned"
    /\ Elems(ev.signals) = SIGNAL_CODES
    /\ SumWeights(Elems(ev.signals) \cap StrongCodes) > ConfOne
    /\ ev.result.confidence = ConfOne

\* the level categories that are present among recognized signals
C13_Categories(signals) ==
    {l \in ActivityLevel :
        \/ l = TRANSACTION /\ Elems(signals) \cap TransactionCodes # {}
        \/ l = UGC /\ Elems(signals) \cap UgcCodes # {}
        \/ l = ACCOUNT /\ Elems(signals) \cap AccountCodes # {}}

\* the level categories the keywords of a simulated URL stand for
C13_SimCategories(simUrl) ==
    {l \in ActivityLevel :
        \/ l = TRANSACTION /\ "checkout" \in simUrl.words
        \/ l = UGC /\ "edit" \in simUrl.words
        \/ l = ACCOUNT /\ "login" \in simUrl.words}

\* the highest of the categories in the order TRANSACTION > UGC > ACCOUNT >
\* VIEW, and VIEW when there is none
C13_Highest(categories) ==
    LET rank == [l \in ActivityLevel |->
                    CASE l = TRANSACTION -> 3 [] l = UGC -> 2 [] l = ACCOUNT -> 1
                      [] OTHER -> 0]
    IN  CHOOSE l \in categories \cup {VIEW} :
            \A m \in categories \cup {VIEW} : rank[m] <= rank[l]

\* C13: classification is single-valued, the highest severity wins: with
\* signals of several level categories present the level is the highest in the
\* order TRANSACTION > UGC > ACCOUNT > VIEW, with no recognized signal it is
\* VIEW; in classify and in the simulator alike.
C13_HighestSeverityWins ==
    /\ cls.pc = "returned" =>
          /\ cls.result.level \in ActivityLevel
          /\ cls.result.level = C13_Highest(C13_Categories(cls.evaluated))
    /\ sim.pc = "stored" =>
          /\ sim.level = C13_Highest(C13_SimCategories(sim.url))
          /\ sim.store.activity_state[sim.url.hostname].last_estimation_level = sim.level

\* classify has met signals of all three categories and answered TRANSACTION,
\* and the simulator has stored UGC for a URL with login and edit in it
C13_Witness ==
    /\ cls.pc = "returned"
    /\ C13_Categories(cls.evaluated) = {ACCOUNT, UGC, TRANSACTION}
    /\ cls.result.level = TRANSACTION
    /\ sim.pc = "stored"
    /\ sim.url.words = {"login", "edit"}
    /\ sim.level = UGC

\* --- RP/IdP inference ---

\* C14: checkTemporalRoundtrip resolves to true only if both candidates are
\* present and differ and the session context exists and has events; with a
\* candidate absent or the two equal it resolves to false without consulting
\* the session store; with the context or its events absent it resolves to
\* false and raises no error.
C14_RoundtripGuarded ==
    inf.fn = "roundtrip" =>
        /\ (inf.pc = "resolved" /\ inf.result) =>
              /\ Truthy(inf.rpDomain) /\ Truthy(inf.idpDomain)
              /\ inf.rpDomain # inf.idpDomain
              /\ inf.reads = 1
              /\ inf.context.present /\ inf.context.hasEvents
        /\ (~Truthy(inf.rpDomain) \/ ~Truthy(inf.idpDomain)
                \/ inf.rpDomain = inf.idpDomain) =>
              (inf.pc = "resolved" /\ ~inf.result /\ inf.reads = 0)
        /\ (inf.reads = 1 /\ inf.pc # "awaiting_context" /\ inf.pc # "rejected"
                /\ (~inf.context.present \/ ~inf.context.hasEvents)) =>
              (inf.pc = "resolved" /\ ~inf.result)

\* distinct candidates, the session store consulted once, a context without
\* events: resolved to false
C14_Witness ==
    /\ inf.fn = "roundtrip" /\ inf.pc = "resolved"
    /\ inf.rpDomain = StrVal("rp.com") /\ inf.idpDomain = StrVal("idp.com")
    /\ inf.reads = 1
    /\ inf.context.present /\ ~inf.context.hasEvents
    /\ ~inf.result

\* the event domains contain RP, later IdP, later RP again
C15_HasPattern(rp, idp, events) ==
    \E i \in 1 .. Len(events), j \in 1 .. Len(events), k \in 1 .. Len(events) :
        /\ i < j /\ j < k
        /\ events[i].domain = rp /\ events[j].domain = idp /\ events[k].domain = rp

\* C15: for distinct candidates and a session event sequence the detection is
\* true exactly when the event domains contain RP, later IdP, later RP again
\* (a subsequence: other domains may lie between); IdP, RP, IdP and RP, IdP
\* alone give false.
C15_RoundtripIsSubsequence ==
    ( /\ inf.fn = "roundtrip" /\ inf.pc = "resolved"
      /\ inf.reads = 1 /\ inf.context.present /\ inf.context.hasEvents ) =>
        LET rp == inf.rpDomain.s
            idp == inf.idpDomain.s
            domains == [i \in 1 .. Len(inf.context.events) |->
                           inf.context.events[i].domain]
        IN  /\ inf.result <=> C15_HasPattern(rp, idp, inf.context.events)
            /\ domains \in {<<idp, rp, idp>>, <<rp, idp>>} => ~inf.result

\* RP, another domain, IdP, RP: detected
C15_Witness ==
    /\ inf.fn = "roundtrip" /\ inf.pc = "resolved"
    /\ inf.rpDomain = StrVal("rp.com") /\ inf.idpDomain = StrVal("idp.com")
    /\ inf.context = ContextOf(<<[domain |-> "rp.com"], [domain |-> "other.com"],
                                 [domain |-> "idp.com"], [domain |-> "rp.com"]>>)
    /\ inf.result

\* the parameter named first among the query parameters, if any
C16_Has(params, name) == \E i \in 1 .. Len(params) : params[i].name = name

\* C16: extractRedirectUriDomain returns null or a bare registrable domain
\* taken from the hostname of the redirect_uri or return_to value: host labels
\* only, never a scheme, a path, a query or the text of the value;
\* redirect_uri=https://www.twitter.com/callback gives twitter.com.
C16_BareDomainOnly ==
    (inf.fn = "extract" /\ inf.pc = "returned" /\ inf.domain # NullText) =>
        /\ \A i \in 1 .. Len(inf.domain.s) : inf.domain.s[i].kind = "label"
        /\ Len(inf.domain.s) \in 2 .. 3
        /\ \E i \in 1 .. Len(inf.urlStr.params) :
              LET p == inf.urlStr.params[i]
                  host == Hostname(p.value)
              IN  /\ p.name \in {"redirect_uri", "return_to"}
                  /\ Len(inf.domain.s) < Len(host)
                  /\ inf.domain.s = LastParts(host, Len(inf.domain.s))
        /\ ParamGet(inf.urlStr.params, "redirect_uri").s =
              <<Part("scheme", "https:"), Part("label", "www"), Part("label", "twitter"),
                Part("label", "com"), Part("path", "/callback")>>
           => inf.domain = Text(<<Part("label", "twitter"), Part("label", "com")>>)

\* redirect_uri=https://www.twitter.com/callback beside a state parameter:
\* twitter.com
C16_Witness ==
    /\ inf.fn = "extract" /\ inf.pc = "returned"
    /\ Len(inf.urlStr.params) = 2
    /\ inf.urlStr.params[1].name = "redirect_uri"
    /\ inf.urlStr.params[2].name = "state"
    /\ inf.domain = Text(<<Part("label", "twitter"), Part("label", "com")>>)

\* what the parameter value v alone gives: null for an empty or absent value,
\* else the registrable domain of its hostname, null if that fails
C17_DerivedFrom(v, onNull) ==
    IF ~TruthyText(v) THEN NullText
    ELSE CatchAll(getETLDPlusOne(domain_getDomain(v), onNull)).value

\* C17: the result is derived from redirect_uri when that parameter is
\* present, from return_to only when redirect_uri is absent; return_to beside
\* a redirect_uri and every other parameter have no influence.
C17_RedirectUriThenReturnTo ==
    (inf.fn = "extract" /\ inf.urlStr.valid) =>
        LET params == inf.urlStr.params
            read == IF C16_Has(params, "redirect_uri")
                      THEN ParamGet(params, "redirect_uri")
                      ELSE ParamGet(params, "return_to")
        IN  /\ inf.pc = "returned"
            /\ inf.domain = C17_DerivedFrom(read, inf.onNull)

\* C18: extractRedirectUriDomain never raises, and returns null when the URL
\* is unparsable, when neither redirect_uri nor return_to is present, or when
\* the value of the parameter (redirect_uri, or return_to in its absence) is
\* not a parsable URL.
C18_NullNeverRaises ==
    inf.fn = "extract" =>
        LET params == inf.urlStr.params
            read == IF C16_Has(params, "redirect_uri")
                      THEN ParamGet(params, "redirect_uri")
                      ELSE ParamGet(params, "return_to")
        IN  /\ inf.pc # "threw"
            /\ ( \/ ~inf.urlStr.valid
                 \/ (~C16_Has(params, "redirect_uri") /\ ~C16_Has(params, "return_to"))
                 \/ ~Parses(read) )
               => (inf.pc = "returned" /\ inf.domain = NullText)

\* --- service worker ---

\* the promises whose callback is a queued operation
OpNodes ==
    {i \in 1 .. Len(promises) :
        promises[i].kind = "then" /\ promises[i].op \in {"nav", "cleanup", "signal"}}
\* the operations between their start and their end, awaiting storage
InFlight == {i \in OpNodes : promises[i].st = "running"}

\* C4: for any interleaving of navigation events, RUN_CLEANUP and
\* ACTIVITY_SIGNAL messages at most one queued operation is in flight, and an
\* operation has started only if every operation that arrived before it has
\* finished or failed.
C4_OneInFlightInArrivalOrder ==
    /\ Cardinality(InFlight) <= 1
    /\ \A i \in OpNodes, j \in OpNodes :
          (i < j /\ promises[j].ran) =>
              (Settled(promises[i].st) /\ promises[i].id < promises[j].id)

\* one operation awaits storage while a navigation, a cleanup and a signal, all
\* three kinds among them, are queued: two wait behind the first
C4_Witness ==
    \E i \in OpNodes, j \in OpNodes, k \in OpNodes :
        /\ i < j /\ j < k
        /\ promises[i].st = "running"
        /\ promises[j].st = "pending"
        /\ promises[k].st = "pending"
        /\ {promises[i].op, promises[j].op, promises[k].op} = {"nav", "cleanup", "signal"}

\* C5: a failure of a queued operation is caught for that operation alone: the
\* queue is never left rejected, no later operation is skipped, and, every
\* storage call settling, every queued operation is eventually executed (again
\* and again a moment comes when all the operations queued so far have run).
C5_FailureDoesNotBlockQueue ==
    /\ [](updateQueue > 0 => promises[updateQueue].st # "rejected")
    /\ [](\A i \in OpNodes : Settled(promises[i].st) => promises[i].ran)
    /\ []<>(\A i \in OpNodes : promises[i].ran)

\* an operation has failed and an operation queued behind it has run to its end
C5_Witness ==
    \E i \in OpNodes, j \in OpNodes :
        /\ i < j
        /\ promises[i].st = "rejected"
        /\ promises[j].ran
        /\ promises[j].st = "fulfilled"
        /\ updateQueue > j
        /\ promises[updateQueue].st = "fulfilled"

\* C6: when a storage get or set fails while a navigation event is handled, the
\* stored event list, domain-state map and activity-state map are either all
\* updated for that event or all left as they were before the event.
C6_NoPartialUpdate ==
    [][\A i \in 1 .. Len(promises) :
          ( /\ promises[i].op = "nav"
            /\ promises[i].st = "running"
            /\ promises'[i].st = "rejected" )
          => LET pre == promises[i].pre
             IN  \/ Snapshot(storage') = pre
                 \/ /\ storage'.events # pre.events
                    /\ storage'.domain_state # pre.domain_state
                    /\ storage'.activity_state # pre.activity_state]_vars

\* the RUN_CLEANUP requests received, each by the promise of its cleanup
CleanupNodes == {i \in OpNodes : promises[i].op = "cleanup"}
\* the answers sent to the request that promise i belongs to
AnswersTo(i) == {k \in 1 .. Len(responses) : responses[k].id = promises[i].id}

\* C19: every RUN_CLEANUP request is answered exactly once, after every
\* operation queued before it has finished: with success when the retention
\* check completed, with failure when it failed; the cleanup runs inside the
\* queue and never while a navigation or signal update is in flight; and, every
\* storage call settling, the answer eventually comes.
C19_CleanupAnsweredOnce ==
    /\ [](\A i \in CleanupNodes :
            /\ Cardinality(AnswersTo(i)) <= 1
            /\ \A k \in AnswersTo(i) :
                  /\ Settled(promises[i].st)
                  /\ responses[k].success <=> promises[i].st = "fulfilled"
                  /\ \A j \in 1 .. i : Settled(promises[j].st)
            /\ (Settled(promises[i + 1].st) /\ Settled(promises[i + 2].st))
                  => Cardinality(AnswersTo(i)) = 1
            /\ promises[i].st = "running" => InFlight = {i})
    /\ []<>(\A i \in CleanupNodes : AnswersTo(i) # {})

\* a cleanup failed and was answered with a failure; a cleanup queued behind it
\* completed and was answered with success
C19_Witness ==
    \E i \in CleanupNodes, j \in CleanupNodes :
        /\ i < j
        /\ \E k \in AnswersTo(i) : ~responses[k].success
        /\ \E k \in AnswersTo(j) : responses[k].success
        /\ Len(responses) = 2

\* C20: every navigation event that is accepted (main frame, a domain, the
\* collection not paused, no burst) and recorded in the event list adds
\* exactly one to visit_count_total of its domain by the time its handler
\* ends, whatever arrived meanwhile;
\* first_seen stays the timestamp of the domain's first accepted event,
\* last_seen becomes the timestamp of this one, the records of the other
\* domains are as they were, and nothing else changes the domain-state map.
C20_VisitsCounted ==
    [][/\ \A i \in 1 .. Len(promises) :
            ( /\ promises[i].op = "nav"
              /\ promises[i].st = "running"
              /\ promises[i].pc \notin {"get_events", "set_events"}
              /\ Settled(promises'[i].st) )
            => LET domain == getDomain(promises[i].req.url)
                   pre == promises[i].pre.domain_state
                   post == storage'.domain_state
               IN  /\ post[domain].visit_count_total =
                          pre[domain].visit_count_total + 1
                   /\ post[domain].first_seen =
                          IF pre[domain].present THEN pre[domain].first_seen
                          ELSE promises[i].ts
                   /\ post[domain].last_seen = promises[i].ts
                   /\ \A d \in Domains \ {domain} : post[d] = pre[d]
       /\ storage'.domain_state # storage.domain_state
            => \E i \in 1 .. Len(promises) : Awaiting(i, "nav", "set_domain")]_vars

\* the domain whose activity record the operation of promise i updates
ActivityDomainOf(i) ==
    IF promises[i].op = "nav" THEN getDomain(promises[i].req.url)
    ELSE promises[i].req.domain

\* C21: an updateActivityState call that is written adds one to
\* counts_by_level of the estimated level and to no other level, sets
\* last_estimation_level and last_estimation_ts to the estimation, stamps
\* last_account_touch_ts only for ACCOUNT and last_transaction_signal_ts only
\* for TRANSACTION, and leaves the other domains' records as they were; nothing
\* else changes the activity-state map, so the counters of a domain sum to the
\* number of updates applied to it.
C21_ActivityCounted ==
    [][storage'.activity_state # storage.activity_state =>
          \E i \in 1 .. Len(promises) :
              /\ promises[i].st = "running" /\ promises[i].pc = "set_activity"
              /\ promises'[i].pc # "set_activity"
              /\ LET d == ActivityDomainOf(i)
                     level == promises[i].level
                     old == IF storage.activity_state[d].present
                              THEN storage.activity_state[d]
                              ELSE [NoActivityRecord EXCEPT !.present = TRUE]
                     new == storage'.activity_state[d]
                 IN  /\ new.present
                     /\ \A l \in ActivityLevel :
                           new.counts_by_level[l] =
                               old.counts_by_level[l] + (IF l = level THEN 1 ELSE 0)
                     /\ new.last_estimation_level = level
                     /\ new.last_estimation_ts = promises[i].ts
                     /\ new.last_account_touch_ts =
                           IF level = ACCOUNT THEN promises[i].ts
                           ELSE old.last_account_touch_ts
                     /\ new.last_transaction_signal_ts =
                           IF level = TRANSACTION THEN promises[i].ts
                           ELSE old.last_transaction_signal_ts
                     /\ \A e \in Domains \ {d} :
                           storage'.activity_state[e] = storage.activity_state[e]]_vars

\* a domain updated twice, at ACCOUNT and at another level: two counters at
\* one, the account touch stamped, the other domain without a record
C21_Witness ==
    \E d \in Domains, l \in ActivityLevel \ {ACCOUNT} :
        /\ storage.activity_state[d].counts_by_level[ACCOUNT] = 1
        /\ storage.activity_state[d].counts_by_level[l] = 1
        /\ storage.activity_state[d].last_estimation_level = l
        /\ storage.activity_state[d].last_account_touch_ts # NoTs
        /\ \A e \in Domains \ {d} : ~storage.activity_state[e].present

\* a navigation to `domain` handled at `timestamp` is a burst: the most recently
\* stored event has that domain and is less than 2000 ms old
C22_Burst(events, domain, timestamp) ==
    /\ events # <<>>
    /\ events[1].domain = domain
    /\ timestamp - events[1].ts < 2000
\* no two adjacent events of the same domain less than 2000 ms apart
C22_NoAdjacentBurst(events) ==
    \A k \in 1 .. Len(events) - 1 :
        ~(events[k].domain = events[k + 1].domain
            /\ events[k].ts - events[k + 1].ts < 2000)

\* C22: a navigation whose domain is that of the most recently stored event,
\* handled less than 2000 ms after it, changes nothing: the handler ends with
\* the event list, the domain state, the activity state and the retention
\* state as they were; so no two adjacent stored events have the same domain
\* and timestamps less than 2000 ms apart.  The same for the Dev Simulator.
C22_BurstChangesNothing ==
    /\ [](C22_NoAdjacentBurst(storage.events)
            /\ C22_NoAdjacentBurst(sim.store.events))
    /\ [][/\ \A i \in 1 .. Len(promises) :
               ( /\ Awaiting(i, "nav", "get_events")
                 /\ C22_Burst(storage.events, getDomain(promises[i].req.url), now)
                 /\ promises'[i] # promises[i] )
               => (Settled(promises'[i].st) /\ storage' = storage /\ badge' = badge)
         /\ ( /\ sim' # sim
              /\ sim'.pc \notin {"alerted", "paused"}
              /\ C22_Burst(sim.store.events, sim'.url.hostname, now) )
            => (sim'.pc = "deduped" /\ sim'.store = sim.store)]_vars

\* the simulator has stored a visit and dropped the next one as a burst
C22_Witness ==
    /\ sim.pc = "deduped" /\ sim.visits = 2
    /\ Len(sim.store.events) = 1
    /\ sim.store.events[1].domain = sim.url.hostname
    /\ sim.store.domain_state[sim.url.hostname].visit_count_total = 1

NavNodes == {i \in OpNodes : promises[i].op = "nav"}
\* the handler of promise i is past its tests and has a storage write under way
\* or behind it
Writing(i) ==
    /\ promises[i].st = "running"
    /\ promises[i].pc \notin {"", "get_events"}

\* C24 as stated: a navigation event that is not for the main frame, whose URL
\* gives no http(s) domain, or that arrived while collection was paused, never
\* comes to a storage write.
C24_RejectedAtArrival ==
    \A i \in NavNodes :
        ( \/ promises[i].req.frameId # 0
          \/ getDomain(promises[i].req.url) = ""
          \/ promises[i].req.paused )
        => ~Writing(i)

\* What holds of these events: one that is not for the main frame or whose
\* URL gives no http(s) domain never comes to a storage write; one whose
\* handler finds collection paused when it reads the settings ends there, the
\* stored state and the badge left as they were.
C24_RejectedWhenHandled ==
    /\ [](\A i \in NavNodes :
            (promises[i].req.frameId # 0 \/ getDomain(promises[i].req.url) = "")
            => ~Writing(i))
    /\ [][\A i \in 1 .. Len(promises) :
             ( /\ Awaiting(i, "nav", "get_events")
               /\ ~storage.settings.collectionEnabled
               /\ promises'[i] # promises[i] )
             => ( /\ Settled(promises'[i].st)
                  /\ storage' = storage
                  /\ badge' = badge )]_vars

\* the ACTIVITY_SIGNAL handlers, each by the promise of its callback
SignalNodes == {i \in OpNodes : promises[i].op = "signal"}

\* C25: an ACTIVITY_SIGNAL message is queued only for a sender tab with an
\* http(s) URL (the content scripts run on a.com); what it writes is the
\* activity record of the sender tab's domain and of no other, the domain of
\* payload.url (b.com) included, at the level classify gives for payload.url
\* and payload.signals.
C25_SignalUpdatesSenderDomain ==
    /\ [](\A i \in SignalNodes :
            ~Settled(promises[i].st) => promises[i].req.domain = getDomain(UrlALogin))
    /\ [][\A i \in 1 .. Len(promises) :
             ( /\ promises[i].op = "signal"
               /\ promises[i].st = "running" /\ promises[i].pc = "set_activity"
               /\ storage'.activity_state # storage.activity_state )
             => LET payload == promises[i].req.payload
                    sender == promises[i].req.domain
                IN  /\ getDomain(payload.url) # sender
                    /\ \A d \in Domains \ {sender} :
                          storage'.activity_state[d] = storage.activity_state[d]
                    /\ storage'.activity_state[sender].last_estimation_level =
                          classify(payload.url, payload.signals).level
                    /\ storage'.activity_state[sender].last_estimation_ts =
                          payload.timestamp]_vars

\* a signal sent from a.com about the checkout page of b.com has been
\* processed: a.com stands at TRANSACTION, b.com has no record
C25_Witness ==
    /\ storage.activity_state["a.com"].present
    /\ storage.activity_state["a.com"].last_estimation_level = TRANSACTION
    /\ storage.activity_state["a.com"].last_transaction_signal_ts # NoTs
    /\ ~storage.activity_state["b.com"].present

\* C28: while settings.collectionEnabled is false, no step of the handler of
\* a navigation event or of an ACTIVITY_SIGNAL message that arrived during the
\* pause changes the stored event list, the domain state or the activity
\* state.
C28_PausedHandlersWriteNothing ==
    [][\A i \in 1 .. Len(promises) :
         ( /\ promises[i].op \in {"nav", "signal"}
           /\ promises[i].req.paused
           /\ promises'[i] # promises[i]
           /\ ~storage.settings.collectionEnabled
           /\ ~storage'.settings.collectionEnabled )
         => Snapshot(storage') = Snapshot(storage)]_vars

\* the estimations counted in an activity record
C29_Counted(record) ==
    record.counts_by_level.view + record.counts_by_level.account
        + record.counts_by_level.ugc + record.counts_by_level.transaction

\* the popup's Reset has been written, every operation of the update queue has
\* settled, and no event or message has arrived since the Reset
C29_DrainedAfterReset ==
    /\ popup.clears > 0 /\ popup.pc = "idle"
    /\ arrived = popup.arrivedAtClear
    /\ \A i \in 1 .. Len(promises) : Settled(promises[i].st)

\* C29: once the popup's Reset has been written and the update queue has
\* drained with no new navigation or signal, the store holds nothing recorded
\* before the Reset: no more events, visits or estimations than the handlers
\* that were unfinished at the Reset can have recorded, one each.
C29_ResetNotUndone ==
    C29_DrainedAfterReset =>
        /\ Len(storage.events) <= popup.openAtClear
        /\ \A d \in Domains :
              /\ storage.domain_state[d].visit_count_total <= popup.openAtClear
              /\ C29_Counted(storage.activity_state[d]) <= popup.openAtClear

\* a timestamp of an activity record does not go back: once set, it is never
\* replaced by an earlier one
C30_NotEarlier(before, after) == before # NoTs => after >= before

\* C30: for every domain, last_estimation_ts, last_account_touch_ts and
\* last_transaction_signal_ts never decrease from one update of the activity
\* state to the next, whatever the order in which navigation events and
\* ACTIVITY_SIGNAL messages are handled.
C30_TimestampsNeverDecrease ==
    [][\A d \in Domains :
         (storage.activity_state[d].present /\ storage'.activity_state[d].present)
         => /\ storage'.activity_state[d].last_estimation_ts
                 >= storage.activity_state[d].last_estimation_ts
            /\ C30_NotEarlier(storage.activity_state[d].last_account_touch_ts,
                              storage'.activity_state[d].last_account_touch_ts)
            /\ C30_NotEarlier(storage.activity_state[d].last_transaction_signal_ts,
                              storage'.activity_state[d].last_transaction_signal_ts)]_vars

====
